---- MODULE Spec2Model ----
(***************************************************************************)
(* minirpc: the RPC transport and stream multiplexer (src/dist/core.js).   *)
(*                                                                         *)
(* The module holds these specifications over one set of variables:        *)
(*   SpecClient    createClient: query, attach, the close callback and     *)
(*                 receiveSocketData (pending queries, request queue);     *)
(*   SpecConnect   the connect loop: failed attempts, backoff, abort;      *)
(*   SpecBackoff   one client.connect whose attempts fail, for every       *)
(*                 choice of the backoff options;                          *)
(*   SpecStream    two transports made by createTransport, joined by a     *)
(*                 socket: sendStream on one side, receiveMessage on the   *)
(*                 other, close on both;                                   *)
(*   SpecPing      the client's liveness probe with a millisecond clock;   *)
(*   SpecAlive     the liveness timer of a server connection, with the     *)
(*                 same clock;                                             *)
(*   SpecServer    createServer: router, message, handlers, close;         *)
(*   SpecSubscribe query(...).subscribe on a client whose server sends     *)
(*                 lazy sequences;                                         *)
(*   SpecResponse  receiveSocketData with every kind of response;          *)
(*   SpecContext   Ctx and createContext under the dispatch of requests    *)
(*                 of two connections;                                     *)
(*   SpecWare      makeWare: use, routes and the calls of a route;         *)
(*   SpecChannel   createChannel: pull, push and cancel;                   *)
(*   SpecParse     receiveMessage fed with the frames of the protocol in   *)
(*                 any order;                                              *)
(*   SpecProducer  the read loops of sendStream with reads that fail and   *)
(*                 items that hold a lazy sequence;                        *)
(*   SpecIds       calls, connections that follow one another and          *)
(*                 results;                                                *)
(*   SpecStray     responses whose id may be unknown;                      *)
(*   SpecClosed    send, ping and parse on a closed transport;             *)
(*   SpecLive      the connect loop with a server that answers, under      *)
(*                 fairness.                                               *)
(* One step of a specification is one JavaScript job: the code that runs   *)
(* between two awaits or inside one event callback.                        *)
(***************************************************************************)
EXTENDS Integers, Sequences, FiniteSets, TLC

VARIABLES
    \* ---- createClient (SpecClient, SpecPing)
    queries,          \* Map id -> handle; a handle is the id of the future it settles
    nextRequestId,    \* let nextRequestId = 1
    transport,        \* the attached transport record, or NoTransport (undefined)
    messageQueue,     \* requests buffered while no transport is attached
    future,           \* the promise returned by query, per request id
    loop,             \* position of the connect loop
    attempt,          \* backoff attempt counter of the running client.connect
    aborted,          \* options.signal.aborted
    sock,             \* number of the socket opened last (0: none yet)
    sockOpen,         \* TRUE while that socket is open (its close callback has not run)
    wire,             \* per socket, the frames handed to connection.message
    closeCalls,       \* history: the calls connection.close(code), as <<socket, code>>
    issued,           \* history: per request id, how and when query issued it
    settled,          \* history: per request id, the calls of its handle's resolve and reject
    reported,         \* the error the step just taken passed to onError, or NoError
    options,          \* options.backoff of client.connect, with the defaults filled in
    signalReason,     \* options.signal.reason
    connLog,          \* history: what the connect loop did, in order
    \* ---- two transports (SpecStream)
    ptr,              \* transport of the peer that sends messages and produces streams
    ctr,              \* transport of the peer that parses them and consumes streams
    sinks,            \* ReadableStreams made by revivers.ReadableStream on the consumer
    down,             \* frames the producer side handed to its socket send, in order
    rpos,             \* how many frames of down the consumer side has parsed
    up,               \* frames the consumer side handed to its socket send, in order
    upos,             \* how many frames of up the producer side has parsed
    src,              \* history: per outbound stream id, what the producer read and wrote
    cut,              \* history: how many frames of down were sent before the socket closed
    closeLog,         \* history: what close() found on each side
    slog,             \* history: the frames whose parse threw, the calls that threw
    \* ---- time (SpecPing)
    now,              \* Date.now()
    timers,           \* pending setTimeout callbacks started by ping
    interval,         \* when the setInterval of the attached connection fires next, or NoInterval
    probes,           \* history: outcome of each liveness probe
    \* ---- createServer (SpecAlive, SpecServer)
    methods,          \* const methods = {}: the names registered through router()
    str,              \* the transport of the server's connection
    activityTimeout,  \* let activityTimeout: 0 (undefined) or the id of a timeout
    stimers,          \* pending setTimeout callbacks of the server's connection
    timerIds,         \* number of timeouts the server's connection has started
    sopen,            \* TRUE until the connection's close(reason) has run
    sout,             \* frames the server handed to client.message, in order
    handlers,         \* per request id, the handler invocation started for it
    shist,            \* history: arrivals, pings, client.close() calls, onError calls
    \* ---- query.subscribe (SpecSubscribe)
    sub,              \* per call id, the subscribe() attached to the call's promise
    subSignal,        \* options.signal of subscribe, and what was true when it aborted
    observed,         \* history: the values the observer was invoked with
    \* ---- Ctx, createContext, makeWare (SpecContext, SpecWare)
    currentClient,    \* static Ctx.currentClient: the key of a connection, or NoClient
    ctxData,          \* static Ctx.data: per key and reader, the value of their Ctx
    tasks,            \* handlers waiting at an await
    ctxLog,           \* history: the handler invocations and what they found
    stack,            \* the middleware stack of the Ware made last
    ware,             \* per method made by routes(): its stack and the functions it calls
    \* ---- createChannel (SpecChannel)
    subs,             \* const subs = new Set(): the controllers added, in insertion order
    pulls,            \* per call of pull, the ReadableStream it returned
    pushed            \* history: the calls of push

vars == <<queries, nextRequestId, transport, messageQueue, future, loop, attempt,
          aborted, sock, sockOpen, wire, closeCalls, issued, settled, reported,
          options, signalReason, connLog,
          ptr, ctr, sinks, down, rpos, up, upos, src, cut, closeLog, slog,
          now, timers, interval, probes,
          methods, str, activityTimeout, stimers, timerIds, sopen, sout, handlers, shist,
          sub, subSignal, observed,
          currentClient, ctxData, tasks, ctxLog, stack, ware,
          subs, pulls, pushed>>

clientVars == <<queries, nextRequestId, transport, messageQueue, future, loop, attempt,
                aborted, sock, sockOpen, wire, closeCalls, issued, settled, reported,
                options, signalReason, connLog>>
streamVars == <<ptr, ctr, sinks, down, rpos, up, upos, src, cut, closeLog, slog>>
timeVars == <<now, timers, interval, probes>>
serverVars == <<methods, str, activityTimeout, stimers, timerIds, sopen, sout, handlers, shist>>
subVars == <<sub, subSignal, observed>>
ctxVars == <<currentClient, ctxData, tasks, ctxLog, stack, ware>>
chanVars == <<subs, pulls, pushed>>
libVars == <<ctxVars, chanVars>>
otherVars == <<serverVars, subVars, libVars>>

----------------------------------------------------------------------------
(* Bounds of the model *)

MaxCalls == 3        \* calls issued through query
MaxSockets == 2      \* sockets the adapter opens
NumOfAttempts == 3   \* options.backoff.numOfAttempts
MaxStreams == 1      \* lazy sequences sent
MaxItems == 2        \* items read from one lazy sequence
MaxCtl == 1          \* pings and stream-less messages the producing peer sends
MaxFrames == 4       \* frames the producing side hands to its socket
MaxTime == 6         \* last value of the clock
PongTimeout == 1     \* options.pongTimeout, in clock ticks
PingInterval == 2    \* options.pingInterval, in clock ticks
PingTimeout == 2     \* the server's client.pingTimeout, in clock ticks
MaxStack == 2        \* middleware functions of one Ware
MaxPulls == 2        \* calls of pull on a channel
MaxPushes == 2       \* calls of push on a channel

----------------------------------------------------------------------------
(* Values *)

connectionClosedException == "ConnectionClosed"

EmptyMap == [i \in {} |-> 0]

\* A physical frame or its parsed content.  k is the kind: "ping", "pong",
\* "req" and "res" (JSON arrays), "cancel", "chunk" ({data}), "chunkT" ({type}),
\* "done", "error" (JSON objects with a stream field) and "raw" (the payload
\* that follows a chunkT; its id is a history label the parser never reads).
\* A response ("res") holds its value in x, as printed, and in n which key it
\* has and what the value is: ResultKey, StringError or OtherError.
Frame(k, id, x, v, n, s) == [k |-> k, id |-> id, x |-> x, v |-> v, n |-> n, s |-> s]

\* { id, result: x }
ResultKey == 0
\* { id, error: x }, typeof x === 'string'
StringError == 1
\* { id, error: x }, x not a string (true, null, a number, an object)
OtherError == 2

PingFrame == Frame("ping", 0, "", 0, 0, {})
PongFrame == Frame("pong", 0, "", 0, 0, {})

\* An item a local lazy sequence yields: type is the class of the value, val
\* tells the items of one sequence apart, len is the byte length of a binary
\* value, text is the content of a string that is no item of a sequence.
Item(type, val, len) == [type |-> type, val |-> val, len |-> len, text |-> ""]

\* The string item a text frame that is no payload would be taken for
TextItem(data) == [type |-> "string", val |-> 0, len |-> 0, text |-> data.k]

\* The element types of the lazy sequences sent: plain values, strings, Node
\* Buffers and typed arrays with two-byte elements
ItemTypes == {"json", "string", "Buffer", "Uint16Array"}

\* The n-th item of a sequence of the given element type
NthItem(type, n) == Item(type, n, IF type \in {"Buffer", "Uint16Array"} THEN 2 ELSE 0)

\* typeof value === 'string' || value instanceof ArrayBuffer || ArrayBuffer.isView(value)
IsRawItem(item) == item.type \in {"string", "Buffer", "Uint16Array"}

\* What a read or devalue.stringify throws: an Error object with a name and
\* a message, or, with no name, a string
Thrown(name, message) == [name |-> name, message |-> message]
NotThrown == Thrown("none", "")
DevalueError == Thrown("DevalueError", "Cannot stringify arbitrary non-POJOs")

\* String(error)
String(error) ==
    IF error.name = "" THEN error.message
    ELSE IF error.message = "" THEN error.name
    ELSE error.name \o ": " \o error.message

----------------------------------------------------------------------------
(* ReadableStream and AbortController, as far as the transport uses them *)

NewSink == [state |-> "readable", queue |-> <<>>, closeReq |-> FALSE, err |-> "", log |-> <<>>]

\* controller.enqueue throws unless the stream is readable and close was not requested
CanEnqueue(sink) == sink.state = "readable" /\ ~sink.closeReq

controllerEnqueue(sink, item) ==
    [sink EXCEPT !.queue = Append(@, item), !.log = Append(@, item)]

\* controller.close: close is requested, and the stream closes once its queue
\* has drained
controllerClose(sink) ==
    IF sink.queue = <<>> THEN [sink EXCEPT !.closeReq = TRUE, !.state = "closed"]
    ELSE [sink EXCEPT !.closeReq = TRUE]

\* controller.error does nothing unless the stream is readable
controllerError(sink, e) ==
    IF sink.state # "readable" THEN sink
    ELSE [sink EXCEPT !.state = "errored", !.queue = <<>>, !.err = e]

NewController == [aborted |-> FALSE, reason |-> ""]

\* Mutant of abort: the reason given is not kept
abortWithoutReason(controller, reason) ==
    IF controller.aborted THEN controller
    ELSE [aborted |-> TRUE, reason |-> ""]

\* AbortController.abort keeps the first reason
abort(controller, reason) ==
    IF controller.aborted THEN controller
    ELSE [aborted |-> TRUE, reason |-> reason]

----------------------------------------------------------------------------
(* createTransport *)

NoChunk == [id |-> 0, type |-> ""]
NoMessage == Frame("undefined", 0, "", 0, 0, {})

createTransport ==
    [ closed |-> FALSE, inbound |-> EmptyMap, outbound |-> EmptyMap,
      expectedChunk |-> NoChunk, lastMessageTime |-> 0, nextStreamId |-> 1 ]

BytesPerElement(type) ==
    CASE type \in {"DataView", "Int8Array", "Uint8Array", "Uint8ClampedArray"} -> 1
      [] type \in {"Int16Array", "Uint16Array"} -> 2
      [] type \in {"Int32Array", "Uint32Array", "Float32Array"} -> 4
      [] type \in {"Float64Array", "BigInt64Array", "BigUint64Array"} -> 8
      [] OTHER -> 0

ArrayBufferViews ==
    { "DataView", "Int8Array", "Uint8Array", "Uint8ClampedArray", "Int16Array",
      "Uint16Array", "Int32Array", "Uint32Array", "Float32Array", "Float64Array",
      "BigInt64Array", "BigUint64Array" }

\* The type tag sendStream announces for a raw item
chunkType(item) ==
    IF item.type = "Buffer" THEN "Uint8Array" ELSE item.type

\* The physical frame send(value) puts on the socket: a text frame for a
\* string, a binary frame of item.len bytes otherwise.
rawFrame(id, item) ==
    Frame("raw", id, IF item.type = "string" THEN "string" ELSE "binary", item.val, item.len, {})

\* typeof data === 'string': every frame but a binary payload is text
IsText(data) == data.k # "raw" \/ data.x = "string"

\* convertBufferType(data, type); data is the physical frame, binary data is an
\* ArrayBuffer of data.n bytes.  new View(data, 0, data.byteLength) takes its
\* third argument as a number of elements and throws a RangeError when that
\* many elements do not fit in the buffer.
convertBufferType(data, type) ==
    IF IsText(data)
    THEN [threw |-> type # "string",
          value |-> IF data.k = "raw" THEN Item("string", data.v, data.n) ELSE TextItem(data)]
    ELSE IF type = "ArrayBuffer"
    THEN [threw |-> FALSE, value |-> Item("ArrayBuffer", data.v, data.n)]
    ELSE IF type \notin ArrayBufferViews
    THEN [threw |-> TRUE, value |-> Item(type, data.v, data.n)]
    ELSE [threw |-> data.n * BytesPerElement(type) > data.n,
          value |-> Item(type, data.v, data.n)]

\* What a call of parse, send, close or a producer step leaves behind
Outcome(t, sk, out, ret, threw) ==
    [t |-> t, sinks |-> sk, out |-> out, ret |-> ret, threw |-> threw]

\* revivers.ReadableStream for every stream id of a message: start() registers
\* a fresh controller under the id
reviveStreams(t, sk, ids) ==
    [ t |-> [t EXCEPT !.inbound =
                [i \in (DOMAIN t.inbound) \cup ids |->
                    IF i \in ids THEN [canceled |-> FALSE] ELSE t.inbound[i]]],
      sinks |-> [i \in (DOMAIN sk) \cup ids |-> IF i \in ids THEN NewSink ELSE sk[i]] ]

RemoveKey(f, k) == [i \in (DOMAIN f) \ {k} |-> f[i]]

receiveMessage(t0, sk, data, time) ==
    IF t0.closed THEN Outcome(t0, sk, <<>>, NoMessage, TRUE)
    ELSE
    LET t == [t0 EXCEPT !.lastMessageTime = time] IN
    IF t.expectedChunk # NoChunk
    THEN LET id == t.expectedChunk.id
             type == t.expectedChunk.type
             t2 == [t EXCEPT !.expectedChunk = NoChunk]
         IN  IF id \notin DOMAIN t.inbound
             THEN Outcome(t, sk, <<>>, NoMessage, TRUE)
             ELSE IF t.inbound[id].canceled
             THEN Outcome(t2, sk, <<>>, NoMessage, FALSE)
             ELSE IF convertBufferType(data, type).threw \/ ~CanEnqueue(sk[id])
             THEN Outcome(t2, sk, <<>>, NoMessage, TRUE)
             ELSE Outcome(t2,
                          [sk EXCEPT ![id] =
                              controllerEnqueue(@, convertBufferType(data, type).value)],
                          <<>>, NoMessage, FALSE)
    ELSE IF data.k = "raw" /\ data.x # "string"
    THEN Outcome(t, sk, <<>>, NoMessage, TRUE)
    ELSE IF data.k = "ping"
    THEN Outcome(t, sk, <<PongFrame>>, NoMessage, FALSE)
    ELSE IF data.k = "pong"
    THEN Outcome(t, sk, <<>>, NoMessage, FALSE)
    ELSE IF data.k \in {"raw", "junk"}
    THEN Outcome(t, sk, <<>>, NoMessage, TRUE)
    ELSE IF data.k \in {"req", "res"}
    THEN Outcome(reviveStreams(t, sk, data.s).t, reviveStreams(t, sk, data.s).sinks,
                 <<>>, data, FALSE)
    ELSE IF data.k = "cancel"
    THEN IF data.id \notin DOMAIN t.outbound
         THEN Outcome(t, sk, <<>>, NoMessage, TRUE)
         ELSE Outcome([t EXCEPT !.outbound[data.id] = abort(@, data.x)],
                      sk, <<>>, NoMessage, FALSE)
    ELSE IF data.k = "chunkT"
    THEN Outcome([t EXCEPT !.expectedChunk = [id |-> data.id, type |-> data.x]],
                 sk, <<>>, NoMessage, FALSE)
    ELSE IF data.id \notin DOMAIN t.inbound
    THEN Outcome(t, sk, <<>>, NoMessage, TRUE)
    ELSE IF data.k = "chunk"
    THEN IF t.inbound[data.id].canceled
         THEN Outcome(t, sk, <<>>, NoMessage, FALSE)
         ELSE IF ~CanEnqueue(sk[data.id])
         THEN Outcome(t, sk, <<>>, NoMessage, TRUE)
         ELSE Outcome(t, [sk EXCEPT ![data.id] = controllerEnqueue(@, Item("json", data.v, 0))],
                      <<>>, NoMessage, FALSE)
    ELSE LET t3 == [t EXCEPT !.inbound = RemoveKey(@, data.id)] IN
         IF t.inbound[data.id].canceled
         THEN Outcome(t3, sk, <<>>, NoMessage, FALSE)
         ELSE IF data.k = "done"
         THEN IF ~CanEnqueue(sk[data.id])
              THEN Outcome(t3, sk, <<>>, NoMessage, TRUE)
              ELSE Outcome(t3, [sk EXCEPT ![data.id] = controllerClose(@)],
                           <<>>, NoMessage, FALSE)
         ELSE Outcome(t3, [sk EXCEPT ![data.id] = controllerError(@, data.x)],
                      <<>>, NoMessage, FALSE)

\* devalue.stringify(value) without reducers: plain values only
CanStringify(item) == item.type = "json"

\* Mutant of rawChunkFrames: another frame is written between the two
rawChunkFramesSplit(id, item) ==
    << Frame("chunkT", id, chunkType(item), 0, 0, {}), PingFrame, rawFrame(id, item) >>

\* The frames one raw item is written as (lines 90-91)
rawChunkFrames(id, item) ==
    << Frame("chunkT", id, chunkType(item), 0, 0, {}), rawFrame(id, item) >>

\* Mutant of terminatorFrames: done is written on the way out of the catch
\* block as well
terminatorFramesBoth(id, kind, error, controller) ==
    IF kind = "done" THEN << Frame("done", id, "", 0, 0, {}) >>
    ELSE << Frame("error", id, String(error), 0, 0, {}), Frame("done", id, "", 0, 0, {}) >>

\* The frame written when the read loop is left: done after a normal end,
\* error from the catch block unless the cancel handle was fired
terminatorFrames(id, kind, error, controller) ==
    IF kind = "done" THEN << Frame("done", id, "", 0, 0, {}) >>
    ELSE IF controller.aborted THEN << >>
    ELSE << Frame("error", id, String(error), 0, 0, {}) >>

\* What ends the read loop with an exception: the read rejected, or
\* devalue.stringify threw on the item read
thrownBy(read) ==
    IF read.kind = "error" THEN read.error
    ELSE IF read.kind = "item" /\ ~IsRawItem(read.item) /\ ~CanStringify(read.item)
    THEN DevalueError
    ELSE NotThrown

\* Mutant of sendStreamStart: the cancel handle is not registered before the
\* message frame is written
sendStreamStartDeferred(t, ids) == t

\* sendStream up to its first await: the cancel handle is registered
sendStreamStart(t, ids) ==
    [t EXCEPT !.outbound =
        [i \in (DOMAIN t.outbound) \cup ids |->
            IF i \in ids THEN NewController ELSE t.outbound[i]]]

\* Mutant of sendStreamStep: the finally block does not delete the id
sendStreamStepKeepsId(t, id, read) ==
    IF read.kind = "item" /\ IsRawItem(read.item)
    THEN Outcome(t, EmptyMap, rawChunkFrames(id, read.item), NoMessage, FALSE)
    ELSE IF read.kind = "item" /\ CanStringify(read.item)
    THEN Outcome(t, EmptyMap, << Frame("chunk", id, "", read.item.val, 0, {}) >>,
                 NoMessage, FALSE)
    ELSE Outcome(t, EmptyMap,
                 terminatorFrames(id, IF read.kind = "done" THEN "done" ELSE "error",
                                  thrownBy(read), t.outbound[id]),
                 NoMessage, TRUE)

\* sendStream from one resolution of reader.read() to the next await.
\* read is what the read gave: [kind |-> "item", item |-> ..], "done", or
\* "error" with the value it rejected with.
sendStreamStep(t, id, read) ==
    IF read.kind = "item" /\ IsRawItem(read.item)
    THEN Outcome(t, EmptyMap, rawChunkFrames(id, read.item), NoMessage, FALSE)
    ELSE IF read.kind = "item" /\ CanStringify(read.item)
    THEN Outcome(t, EmptyMap, << Frame("chunk", id, "", read.item.val, 0, {}) >>,
                 NoMessage, FALSE)
    ELSE Outcome([t EXCEPT !.outbound = RemoveKey(@, id)], EmptyMap,
                 terminatorFrames(id, IF read.kind = "done" THEN "done" ELSE "error",
                                  thrownBy(read), t.outbound[id]),
                 NoMessage, TRUE)

\* reducers.ReadableStream for the k lazy sequences of one message: each gets
\* the next stream id and sendStream is started for it
reduceStreams(t, k) ==
    sendStreamStart([t EXCEPT !.nextStreamId = @ + k],
                    t.nextStreamId .. (t.nextStreamId + k - 1))

\* Mutant of transportSend: the transport is not checked to be open
transportSendUnchecked(t, message, k) ==
    Outcome(reduceStreams(t, k), EmptyMap,
            << [message EXCEPT !.s = t.nextStreamId .. (t.nextStreamId + k - 1)] >>,
            NoMessage, FALSE)

\* transport.send(message), message holding k lazy sequences
transportSend(t, message, k) ==
    IF t.closed THEN Outcome(t, EmptyMap, <<>>, NoMessage, TRUE)
    ELSE Outcome(reduceStreams(t, k), EmptyMap,
                 << [message EXCEPT !.s = t.nextStreamId .. (t.nextStreamId + k - 1)] >>,
                 NoMessage, FALSE)

\* Mutant of close: the transport is marked closed, its streams are left alone
closeFlagOnly(t, sk, reason) ==
    IF t.closed THEN Outcome(t, sk, <<>>, NoMessage, TRUE)
    ELSE Outcome([t EXCEPT !.closed = TRUE], sk, <<>>, NoMessage, FALSE)

\* transport.close(reason)
close(t, sk, reason) ==
    IF t.closed THEN Outcome(t, sk, <<>>, NoMessage, TRUE)
    ELSE Outcome(
        [t EXCEPT !.closed = TRUE,
                  !.inbound = [i \in DOMAIN t.inbound |-> [canceled |-> TRUE]],
                  !.outbound = [i \in DOMAIN t.outbound |-> abort(t.outbound[i], reason)]],
        [i \in DOMAIN sk |->
            IF i \in DOMAIN t.inbound THEN controllerError(sk[i], reason) ELSE sk[i]],
        <<>>, NoMessage, FALSE)

\* invariant(stream) fails in parse: the frame, or the payload announced
\* before it, names a stream that is not in the table
UnknownStream(t, data) ==
    IF t.closed THEN FALSE
    ELSE IF t.expectedChunk # NoChunk THEN t.expectedChunk.id \notin DOMAIN t.inbound
    ELSE \/ data.k \in {"chunk", "done", "error"} /\ data.id \notin DOMAIN t.inbound
         \/ data.k = "cancel" /\ data.id \notin DOMAIN t.outbound

\* An entry of slog: frame number pos of a side made parse throw
Fault(side, pos, t, data) ==
    [ side |-> side, pos |-> pos,
      x |-> IF UnknownStream(t, data) THEN "UnknownStream" ELSE "other" ]

\* An entry of slog: the cancel callback of an inbound sequence threw, pos
\* frames having been parsed
CancelFailed(pos) == [side |-> "consumer", pos |-> pos, x |-> "cancel"]

\* transport.ping(latency, onResult): the frame written and the timeout started.
\* seen and lastAtPing are history: whether a frame was parsed since the ping,
\* and lastMessageTime when the ping was sent.
ping(t, latency, time) ==
    [ threw |-> t.closed,
      out |-> IF t.closed THEN <<>> ELSE << PingFrame >>,
      timer |-> [pingTime |-> time, due |-> time + latency, seen |-> FALSE,
                 lastAtPing |-> t.lastMessageTime] ]

\* Mutant of pingResult: the callback does not look at closed
pingResultUnguarded(t, timer) ==
    [ called |-> TRUE, alive |-> t.lastMessageTime >= timer.pingTime ]

\* Mutant of pingResult: a frame parsed in the millisecond of the ping does
\* not count
pingResultStrict(t, timer) ==
    [ called |-> ~t.closed, alive |-> t.lastMessageTime > timer.pingTime ]

\* The timeout callback of ping: onResult(lastMessageTime >= pingTime) unless closed
pingResult(t, timer) ==
    [ called |-> ~t.closed, alive |-> t.lastMessageTime >= timer.pingTime ]

\* Mutant of cancelCallback: the cancel frame is written, the sequence is not
\* marked as cancelled
cancelCallbackUnmarked(t, id, reason) ==
    IF id \notin DOMAIN t.inbound
    THEN Outcome(t, EmptyMap, <<>>, NoMessage, TRUE)
    ELSE Outcome(t, EmptyMap, << Frame("cancel", id, reason, 0, 0, {}) >>, NoMessage, FALSE)

\* The cancel callback of the ReadableStream made by revivers.ReadableStream
cancelCallback(t, id, reason) ==
    IF id \notin DOMAIN t.inbound
    THEN Outcome(t, EmptyMap, <<>>, NoMessage, TRUE)
    ELSE Outcome([t EXCEPT !.inbound[id].canceled = TRUE], EmptyMap,
                 << Frame("cancel", id, reason, 0, 0, {}) >>, NoMessage, FALSE)

----------------------------------------------------------------------------
(* State after construction *)

NoTransport == [createTransport EXCEPT !.closed = TRUE, !.nextStreamId = 0]

NoInterval == -1

NoError == [msg |-> "", id |-> 0]

\* The backoff options of the connect loop when the caller sets numOfAttempts
\* and startingDelay only
DefaultOptions ==
    [ numOfAttempts |-> NumOfAttempts, startingDelay |-> <<1, 1>>, timeMultiple |-> <<2, 1>>,
      maxDelay |-> <<1, 0>>, jitter |-> FALSE ]

NotClosedLog ==
    [ ran |-> FALSE, inbound |-> {}, wasCanceled |-> {}, outbound |-> {}, wasFired |-> {},
      fired |-> EmptyMap, reads |-> EmptyMap, reason |-> "" ]

InitClientVars ==
    /\ queries = EmptyMap
    /\ nextRequestId = 1
    /\ transport = NoTransport
    /\ messageQueue = <<>>
    /\ future = EmptyMap
    /\ loop = "connecting"
    /\ attempt = 0
    /\ aborted = FALSE
    /\ sock = 0
    /\ sockOpen = FALSE
    /\ wire = EmptyMap
    /\ closeCalls = <<>>
    /\ issued = EmptyMap
    /\ settled = EmptyMap
    /\ reported = NoError
    /\ signalReason = ""
    /\ connLog = <<>>

InitStreamVars ==
    /\ ptr = createTransport
    /\ ctr = createTransport
    /\ sinks = EmptyMap
    /\ down = <<>>
    /\ rpos = 0
    /\ up = <<>>
    /\ upos = 0
    /\ src = EmptyMap
    /\ cut = -1
    /\ closeLog = NotClosedLog
    /\ slog = <<>>

InitTimeVars ==
    /\ now = 1
    /\ timers = {}
    /\ interval = NoInterval
    /\ probes = <<>>

\* History of the server's connection
NoHistory ==
    [ arrivals |-> 0, requests |-> 0, reqs |-> <<>>, pings |-> {}, closeReqs |-> 0,
      errors |-> <<>>, invoked |-> <<>>, unhandled |-> <<>> ]

InitServerVars ==
    /\ methods = {}
    /\ str = createTransport
    /\ activityTimeout = 0
    /\ stimers = {}
    /\ timerIds = 0
    /\ sopen = TRUE
    /\ sout = <<>>
    /\ handlers = EmptyMap
    /\ shist = NoHistory

InitSubVars ==
    /\ sub = EmptyMap
    /\ subSignal = [aborted |-> FALSE, seen |-> 0, streams |-> {}]
    /\ observed = <<>>

NoClient == ""

\* The time of something that has not happened
Never == -1

InitCtxVars ==
    /\ currentClient = NoClient
    /\ ctxData = EmptyMap
    /\ tasks = {}
    /\ ctxLog = <<>>
    /\ stack = <<>>
    /\ ware = EmptyMap

InitChanVars ==
    /\ subs = <<>>
    /\ pulls = EmptyMap
    /\ pushed = <<>>

InitLibVars == InitCtxVars /\ InitChanVars

Init ==
    /\ InitClientVars /\ InitStreamVars /\ InitTimeVars /\ InitServerVars
    /\ InitSubVars /\ InitLibVars
    /\ options = DefaultOptions

----------------------------------------------------------------------------
(* createClient *)

Methods == {"add"}

\* A promise settles once: resolve and reject do nothing to a settled promise
settle(f, state, value) ==
    IF f.state = "pending" THEN [state |-> state, value |-> value] ELSE f

\* query: the request frame of the call
requestMessage(id, method) == Frame("req", id, method, 0, 0, {})

\* f is the request frame of call id
IsReqOf(f, id) == f.k = "req" /\ f.id = id

\* query: queries.set(id, {resolve, reject}); the handle settles future id
registerQuery(q, id) ==
    [i \in (DOMAIN q) \cup {id} |-> IF i = id THEN id ELSE q[i]]

\* query: messageQueue ??= []; messageQueue.push(message)
enqueueMessage(queue, message) == Append(queue, message)

\* Mutant of flushQueue: the queue is sent newest first
flushQueueReversed(queue) == [i \in DOMAIN queue |-> queue[Len(queue) + 1 - i]]

\* connect: messageQueue?.forEach(transport.send), the frames in the order sent
flushQueue(queue) == queue

\* Mutant of clearedQueue: the queue is kept after it was sent
clearedQueueKept(queue) == queue

\* connect: messageQueue = undefined
clearedQueue(queue) == << >>

\* Mutant of rejectedHandles: the close callback rejects nothing
rejectedHandlesNone(q) == {}

\* The close callback: the handles of queries.values(), all rejected
rejectedHandles(q) == {q[i] : i \in DOMAIN q}

\* Mutant of answeredQuery: the entry of an answered call is left in the table
answeredQueryKept(q, id) == q

\* receiveSocketData: queries.delete(message.id)
answeredQuery(q, id) == RemoveKey(q, id)

\* Mutant of responseSettles: the error is surfaced whatever its type
responseSettlesVerbatim(message) ==
    IF message.n = ResultKey THEN [state |-> "resolved", value |-> message.x]
    ELSE [state |-> "rejected", value |-> message.x]

\* receiveSocketData: what a response does to its future (lines 400-405)
responseSettles(message) ==
    IF message.n = ResultKey THEN [state |-> "resolved", value |-> message.x]
    ELSE [state |-> "rejected",
          value |-> IF message.n = StringError THEN message.x ELSE "request failed"]

\* backoff(error, attempt, options, signal): TRUE when it sleeps, FALSE when it
\* throws the error again
\* Mutant of backoff: one more attempt is allowed
backoffOneMore(n, shouldRetry) == shouldRetry /\ n <= options.numOfAttempts

\* Mutant of backoff: the answer of the retry predicate is ignored
backoffDeaf(n, shouldRetry) == n < options.numOfAttempts

\* backoff(error, attempt, options, signal) goes on to sleep: it does not throw
backoff(n, shouldRetry) == shouldRetry /\ n < options.numOfAttempts

\* Numbers that need not be whole are fractions <<p, q>> with q >= 0; <<1, 0>> is Infinity
Infinity == <<1, 0>>
Whole(k) == <<k, 1>>
Times(a, b) == <<a[1] * b[1], a[2] * b[2]>>
Leq(a, b) == a[1] * b[2] <= b[1] * a[2]

\* Math.pow(b, e) for a whole e >= 0
RECURSIVE Pow(_, _)
Pow(b, e) == IF e = 0 THEN Whole(1) ELSE Times(b, Pow(b, e - 1))

\* Math.min(a, b)
Min(a, b) == IF Leq(a, b) THEN a ELSE b

\* Mutant of delay: the exponent is the attempt number
delayFromZero(n, o) == Min(Times(o.startingDelay, Pow(o.timeMultiple, n)), o.maxDelay)

\* backoff: the delay before jitter, for attempt n
delay(n, o) == Min(Times(o.startingDelay, Pow(o.timeMultiple, n - 1)), o.maxDelay)

\* Math.round(Math.random() * d): the whole numbers k = floor(x + 1/2) for some
\* x with 0 <= x < d, and 0 when d is 0
jitter(d) == {k \in 0 .. (d[1] \div d[2]) + 1 : k = 0 \/ 2 * k * d[2] < 2 * d[1] + d[2]}

\* The delays backoff may hand to setTimeout for attempt n
timeoutDelays(n, o) == IF o.jitter THEN {Whole(k) : k \in jitter(delay(n, o))} ELSE {delay(n, o)}

\* The reasons options.signal is aborted with: the default of
\* AbortController.abort(), a DOMException named AbortError, and an Error of
\* the caller
AbortReasons == {"AbortError", "shutdown"}

\* Mutant of handleError: every error reaches the error sink
handleErrorAll(error) == [msg |-> error, id |-> 0]

\* connect.handleError: what reaches the error sink
handleError(error) == IF error = "AbortError" THEN NoError ELSE [msg |-> error, id |-> 0]

\* clearInterval(interval)
clearIntervalKept(i) == i
clearInterval(i) == NoInterval

\* One entry of connLog: an attempt that failed (n: its number; retry: the
\* answer of the retry predicate; slept, delay: the sleep started; thrown: the
\* error was re-thrown), a socket that opened or closed (n: the socket), an abort
LogEntry(ev, n) ==
    [ev |-> ev, n |-> n, retry |-> TRUE, slept |-> FALSE, thrown |-> FALSE, delay |-> Whole(0)]

Attached == transport # NoTransport

\* Mutant of postIncrement: the counter stays
postIncrementNot(n) == n

\* nextRequestId++: the counter after the call
postIncrement(n) == n + 1

\* query(method, params): the request is sent or queued and its handle registered
query(method, params) ==
    /\ nextRequestId <= MaxCalls
    /\ LET id == nextRequestId
           message == [requestMessage(id, method) EXCEPT !.v = params]
       IN  /\ nextRequestId' = postIncrement(id)
           /\ IF Attached
              THEN /\ transport' = transportSend(transport, message, 0).t
                   /\ wire' = [wire EXCEPT ![sock] = @ \o transportSend(transport, message, 0).out]
                   /\ UNCHANGED messageQueue
              ELSE /\ messageQueue' = enqueueMessage(messageQueue, message)
                   /\ UNCHANGED <<transport, wire>>
           /\ queries' = registerQuery(queries, id)
           /\ future' = [i \in (DOMAIN future) \cup {id} |->
                            IF i = id THEN [state |-> "pending", value |-> ""] ELSE future[i]]
           /\ issued' = [i \in (DOMAIN issued) \cup {id} |->
                            IF i = id THEN [queued |-> ~Attached, epoch |-> sock] ELSE issued[i]]
           /\ settled' = [i \in (DOMAIN settled) \cup {id} |->
                            IF i = id THEN << >> ELSE settled[i]]
    /\ UNCHANGED <<loop, attempt, aborted, sock, sockOpen, closeCalls>>
    /\ UNCHANGED <<options, signalReason, connLog>>

\* router.method(...args)
Call(method) ==
    /\ query(method, 0)
    /\ reported' = NoError
    /\ UNCHANGED <<streamVars, timeVars, otherVars>>

\* The adapter resolves: the interval is set, a transport is created over the
\* new socket and the queued requests are sent
AdapterOpen ==
    /\ loop = "connecting"
    /\ sock < MaxSockets
    /\ sock' = sock + 1
    /\ sockOpen' = TRUE
    /\ interval' = now + PingInterval
    /\ transport' = createTransport
    /\ wire' = [i \in (DOMAIN wire) \cup {sock + 1} |->
                    IF i = sock + 1 THEN flushQueue(messageQueue) ELSE wire[i]]
    /\ messageQueue' = clearedQueue(messageQueue)
    /\ loop' = "attached"
    /\ reported' = NoError
    /\ connLog' = Append(connLog, LogEntry("open", sock + 1))
    /\ UNCHANGED <<queries, nextRequestId, future, attempt, aborted, closeCalls,
                   issued, settled, options, signalReason>>
    /\ UNCHANGED <<otherVars, streamVars, now, timers, probes>>

\* The adapter rejects with error: backoff(error, ++attempt, ...) starts a
\* sleep, or throws the error, which the connect loop reports before it ends
AdapterFail(shouldRetry) ==
    /\ loop = "connecting"
    /\ attempt' = attempt + 1
    /\ IF backoff(attempt + 1, shouldRetry)
       THEN /\ loop' = "sleeping"
            /\ reported' = NoError
            /\ \E d \in timeoutDelays(attempt + 1, options) :
                  connLog' = Append(connLog, [LogEntry("fail", attempt + 1) EXCEPT
                                 !.retry = shouldRetry, !.slept = TRUE, !.delay = d])
       ELSE /\ loop' = "ended"
            /\ reported' = handleError("Connection failed")
            /\ connLog' = Append(connLog, [LogEntry("fail", attempt + 1) EXCEPT
                                 !.retry = shouldRetry, !.thrown = TRUE])
    /\ UNCHANGED <<queries, nextRequestId, transport, messageQueue, future, aborted,
                   sock, sockOpen, wire, closeCalls, issued, settled, options, signalReason>>
    /\ UNCHANGED <<streamVars, timeVars, otherVars>>

\* The timeout of backoff fires
BackoffDone ==
    /\ loop = "sleeping"
    /\ loop' = "connecting"
    /\ reported' = NoError
    /\ UNCHANGED <<queries, nextRequestId, transport, messageQueue, future, attempt,
                   aborted, sock, sockOpen, wire, closeCalls, issued, settled>>
    /\ UNCHANGED <<options, signalReason, connLog>>
    /\ UNCHANGED <<streamVars, timeVars, otherVars>>

\* options.signal is aborted with a reason: an attached socket is closed with
\* code 1000; a pending adapter call or backoff sleep rejects with the reason,
\* client.connect throws it and the connect loop hands it to handleError
Abort(why) ==
    /\ ~aborted
    /\ aborted' = TRUE
    /\ signalReason' = why
    /\ connLog' = Append(connLog, LogEntry("abort", 0))
    /\ IF loop = "attached" /\ sockOpen
       THEN /\ closeCalls' = Append(closeCalls, <<sock, 1000>>)
            /\ reported' = NoError
            /\ UNCHANGED loop
       ELSE /\ UNCHANGED closeCalls
            /\ loop' = IF loop \in {"connecting", "sleeping"} THEN "ended" ELSE loop
            /\ reported' = IF loop \in {"connecting", "sleeping"}
                           THEN handleError(why) ELSE NoError
    /\ UNCHANGED <<queries, nextRequestId, transport, messageQueue, future, attempt,
                   sock, sockOpen, wire, issued, settled, options>>
    /\ UNCHANGED <<streamVars, timeVars, otherVars>>

\* The socket closes: the close callback runs, then the connect loop calls
\* client.connect again (which throws at once when the signal is aborted)
SocketClose ==
    /\ loop = "attached" /\ sockOpen
    /\ sockOpen' = FALSE
    /\ interval' = clearInterval(interval)
    /\ transport' = NoTransport
    /\ future' = [i \in DOMAIN future |->
                    IF i \in rejectedHandles(queries)
                    THEN settle(future[i], "rejected", connectionClosedException)
                    ELSE future[i]]
    /\ settled' = [i \in DOMAIN settled |->
                    IF i \in rejectedHandles(queries)
                    THEN Append(settled[i], [by |-> "close", id |-> sock])
                    ELSE settled[i]]
    /\ loop' = IF aborted THEN "ended" ELSE "connecting"
    /\ attempt' = 0
    /\ reported' = IF aborted THEN handleError(signalReason) ELSE NoError
    /\ connLog' = Append(connLog, LogEntry("close", sock))
    /\ sinks' = close(transport, sinks, connectionClosedException).sinks
    /\ UNCHANGED <<queries, nextRequestId, messageQueue, aborted, sock, wire,
                   closeCalls, issued, options, signalReason>>
    /\ UNCHANGED <<ptr, ctr, down, rpos, up, upos, src, cut, closeLog, slog>>
    /\ UNCHANGED <<otherVars, now, timers, probes>>

\* The frames the peer sends to the client: for every request id a response
\* carrying a result and one carrying an error string
ServerFrames ==
    { Frame("res", id, "result", 0, ResultKey, {}) : id \in 1 .. MaxCalls }
        \cup { Frame("res", id, "remote error", 0, StringError, {}) : id \in 1 .. MaxCalls }

\* The socket delivers a frame: receiveSocketData(data)
Receive(data) ==
    /\ sockOpen
    /\ LET r == receiveMessage(transport, sinks, data, now)
           message == r.ret
       IN  /\ transport' = r.t
           /\ sinks' = r.sinks
           /\ wire' = [wire EXCEPT ![sock] = @ \o r.out]
           /\ IF ~Attached \/ r.threw
              THEN /\ reported' = [msg |-> "invariant", id |-> 0]
                   /\ UNCHANGED <<queries, future, settled>>
              ELSE IF message = NoMessage
              THEN reported' = NoError /\ UNCHANGED <<queries, future, settled>>
              ELSE IF message.k # "res"
              THEN /\ reported' = [msg |-> "invariant", id |-> 0]
                   /\ UNCHANGED <<queries, future, settled>>
              ELSE IF message.id \notin DOMAIN queries
              THEN /\ reported' = [msg |-> "Unknown response ID", id |-> message.id]
                   /\ UNCHANGED <<queries, future, settled>>
              ELSE LET handle == queries[message.id] IN
                   /\ queries' = answeredQuery(queries, message.id)
                   /\ future' = [future EXCEPT ![handle] =
                                    settle(@, responseSettles(message).state,
                                           responseSettles(message).value)]
                   /\ settled' = [settled EXCEPT ![handle] =
                                    Append(@, [by |-> "response", id |-> message.id,
                                               x |-> message.x, n |-> message.n])]
                   /\ reported' = NoError
    /\ timers' = {IF t.owner = sock THEN [t EXCEPT !.seen = TRUE] ELSE t : t \in timers}
    /\ UNCHANGED <<nextRequestId, messageQueue, loop, attempt, aborted, sock, sockOpen,
                   closeCalls, issued, options, signalReason, connLog>>
    /\ UNCHANGED <<ptr, ctr, down, rpos, up, upos, src, cut, closeLog, slog>>
    /\ UNCHANGED <<otherVars, now, interval, probes>>

\* The responses a peer sends: results and errors of every kind, among them
\* a result that reads like the generic failure and an empty error string
ResponsePayloads ==
    { <<"result", ResultKey>>, <<"request failed", ResultKey>>,
      <<"remote error", StringError>>, <<"", StringError>>,
      <<"true", OtherError>>, <<"null", OtherError>> }

ResponseFrames ==
    { Frame("res", id, p[1], 0, p[2], {}) : id \in 1 .. MaxCalls, p \in ResponsePayloads }

NextClient ==
    \/ \E method \in Methods : Call(method)
    \/ AdapterOpen
    \/ SocketClose
    \/ \E data \in ServerFrames : Receive(data)

SpecClient == Init /\ [][NextClient]_vars

\* Calls and their responses on one socket
NextResponse ==
    \/ \E method \in Methods : Call(method)
    \/ AdapterOpen
    \/ \E data \in ResponseFrames : Receive(data)

SpecResponse == Init /\ [][NextResponse]_vars

\* Calls, reconnects and results sent for any id on any socket
NextIds ==
    \/ \E method \in Methods : Call(method)
    \/ AdapterOpen
    \/ SocketClose
    \/ \E id \in 1 .. MaxCalls : Receive(Frame("res", id, "result", 0, ResultKey, {}))

SpecIds == Init /\ [][NextIds]_vars

\* Results a peer sends for any id, answered or never issued, with and
\* without a lazy sequence in the result
StrayFrames ==
    { Frame("res", id, "result", 0, ResultKey, s) : id \in 1 .. MaxCalls, s \in {{}, {1}} }

NextStray ==
    \/ \E method \in Methods : Call(method)
    \/ AdapterOpen
    \/ \E data \in StrayFrames : Receive(data)

SpecStray == Init /\ [][NextStray]_vars

\* The connect loop with failing attempts, backoff and the abort signal
NextConnect ==
    \/ \E method \in Methods : Call(method)
    \/ AdapterOpen
    \/ \E shouldRetry \in BOOLEAN : AdapterFail(shouldRetry)
    \/ BackoffDone
    \/ \E why \in AbortReasons : Abort(why)
    \/ SocketClose

SpecConnect == Init /\ [][NextConnect]_vars

\* The server answers request id, which it received on the open socket and
\* has not answered yet, with a result or an error
Answer(id) ==
    /\ sockOpen
    /\ \E i \in DOMAIN wire[sock] : IsReqOf(wire[sock][i], id)
    /\ id \in DOMAIN queries /\ future[id].state = "pending"
    /\ \E data \in {f \in ServerFrames : f.id = id} : Receive(data)

\* Calls at any time, the connect loop with failing attempts and the abort
\* signal, and a server that answers
NextLive ==
    \/ \E method \in Methods : Call(method)
    \/ AdapterOpen
    \/ \E shouldRetry \in BOOLEAN : AdapterFail(shouldRetry)
    \/ BackoffDone
    \/ \E why \in AbortReasons : Abort(why)
    \/ SocketClose
    \/ \E id \in 1 .. MaxCalls : Answer(id)

\* The server answers every request it has received, a backoff sleep ends,
\* and the adapter resolves or rejects
SpecLive ==
    /\ Init /\ [][NextLive]_vars
    /\ WF_vars(\E id \in 1 .. MaxCalls : Answer(id))
    /\ WF_vars(BackoffDone)
    /\ WF_vars(AdapterOpen \/ \E shouldRetry \in BOOLEAN : AdapterFail(shouldRetry))

\* The backoff options a caller passes
BackoffOptions ==
    [ numOfAttempts : 1 .. NumOfAttempts,
      startingDelay : {Whole(1), Whole(3)},
      timeMultiple : {<<2, 1>>, <<5, 3>>},
      maxDelay : {Whole(2), Infinity},
      jitter : BOOLEAN ]

InitBackoff ==
    /\ InitClientVars /\ InitStreamVars /\ InitTimeVars /\ InitServerVars
    /\ InitSubVars /\ InitLibVars
    /\ options \in BackoffOptions

\* One call of client.connect whose attempts fail, for every choice of the
\* backoff options
NextBackoff ==
    \/ \E shouldRetry \in BOOLEAN : AdapterFail(shouldRetry)
    \/ BackoffDone
    \/ \E why \in AbortReasons : Abort(why)

SpecBackoff == InitBackoff /\ [][NextBackoff]_vars

----------------------------------------------------------------------------
(* SpecStream: two transports joined by a socket *)

IsPing(f) == f.k = "ping"
IsPlainMessage(f) == f.k = "res" /\ f.s = {}

\* What reader.read() can give the producer of stream id: the next item, the
\* end of the sequence or a failure; after the cancel handle fired,
\* reader.cancel has closed the local sequence and the read gives its end.
\* The sequences handed to send are unlocked, so getReader succeeds.
Read(kind, item, error) == [kind |-> kind, item |-> item, error |-> error]

Reads(id) ==
    IF ptr.outbound[id].aborted THEN { Read("done", Item("", 0, 0), NotThrown) }
    ELSE { Read("item", NthItem(src[id].type, Len(src[id].read) + 1), NotThrown) :
                x \in {y \in {1} : Len(src[id].read) < MaxItems} }
         \cup { Read("done", Item("", 0, 0), NotThrown),
                Read("error", Item("", 0, 0), Thrown("Error", "")) }

\* Pings and stream-less messages the producing peer has written so far
Ctl == Cardinality({i \in DOMAIN down : IsPing(down[i]) \/ IsPlainMessage(down[i])})

\* The producing peer sends a message holding k lazy sequences of one element type
PSend(k, type) ==
    /\ ~ptr.closed
    /\ k = 0 => Ctl < MaxCtl
    /\ LET r == transportSend(ptr, Frame("res", Cardinality({i \in DOMAIN down : down[i].k = "res"}) + 1,
                                         "result", 0, 0, {}), k)
       IN  /\ ptr' = r.t
           /\ down' = down \o r.out
           /\ Len(down') <= MaxFrames
           /\ src' = [i \in r.out[1].s \cup DOMAIN src |->
                        IF i \in DOMAIN src THEN src[i]
                        ELSE [type |-> type, read |-> <<>>, fin |-> FALSE,
                              reg |-> i \in DOMAIN r.t.outbound, thrown |-> NotThrown]]
    /\ UNCHANGED <<ctr, sinks, rpos, up, upos, cut, closeLog, slog>>
    /\ UNCHANGED <<clientVars, timeVars, otherVars>>

\* One turn of the read loop of sendStream(id, stream), reader.read() giving read
PStep(id, read) ==
    /\ id \in DOMAIN ptr.outbound
    /\ LET r == sendStreamStep(ptr, id, read)
       IN  /\ ptr' = r.t
           /\ down' = down \o r.out
           /\ Len(down') <= MaxFrames
           /\ src' = [src EXCEPT ![id].read = IF read.kind = "item" THEN Append(@, read.item) ELSE @,
                                 ![id].fin = id \notin DOMAIN r.t.outbound,
                                 ![id].thrown = thrownBy(read)]
    /\ UNCHANGED <<ctr, sinks, rpos, up, upos, cut, closeLog, slog>>
    /\ UNCHANGED <<clientVars, timeVars, otherVars>>

\* The producing peer's socket delivers the next frame to transport.parse; the
\* caller catches what parse throws
PParse ==
    /\ ~ptr.closed
    /\ upos < Len(up)
    /\ LET data == up[upos + 1]
           r == receiveMessage(ptr, EmptyMap, data, now)
       IN  /\ ptr' = r.t
           /\ down' = down \o r.out
           /\ Len(down') <= MaxFrames
           /\ slog' = IF r.threw THEN Append(slog, Fault("producer", upos + 1, ptr, data))
                      ELSE slog
    /\ upos' = upos + 1
    /\ UNCHANGED <<ctr, sinks, rpos, up, src, cut, closeLog>>
    /\ UNCHANGED <<clientVars, timeVars, otherVars>>

PPing ==
    /\ ~ptr.closed
    /\ Ctl < MaxCtl
    /\ Len(down) < MaxFrames
    /\ down' = down \o ping(ptr, PongTimeout, now).out
    /\ timers' = timers \cup {[owner |-> -1] @@ ping(ptr, PongTimeout, now).timer}
    /\ UNCHANGED <<ptr, ctr, sinks, rpos, up, upos, src, cut, closeLog, slog>>
    /\ UNCHANGED <<otherVars, clientVars, now, interval, probes>>

\* The consuming peer's socket delivers the next frame to transport.parse
CParse ==
    /\ ~ctr.closed
    /\ rpos < Len(down)
    /\ LET r == receiveMessage(ctr, sinks, down[rpos + 1], now)
       IN  /\ ctr' = r.t
           /\ sinks' = r.sinks
           /\ up' = up \o r.out
           /\ slog' = IF r.threw THEN Append(slog, Fault("consumer", rpos + 1, ctr, down[rpos + 1]))
                      ELSE slog
    /\ rpos' = rpos + 1
    /\ UNCHANGED <<ptr, down, upos, src, cut, closeLog>>
    /\ UNCHANGED <<clientVars, timeVars, otherVars>>

\* The socket closes and each end calls transport.close(reason) from its close
\* callback.  The two callbacks are taken in one step: a frame in flight at
\* that moment is lost, and each end parses nothing after its own callback.
BothClose ==
    /\ ~ptr.closed /\ ~ctr.closed
    /\ ptr' = close(ptr, EmptyMap, connectionClosedException).t
    /\ ctr' = close(ctr, sinks, connectionClosedException).t
    /\ sinks' = close(ctr, sinks, connectionClosedException).sinks
    /\ cut' = Len(down)
    /\ closeLog' = [closeLog EXCEPT
            !.ran = TRUE,
            !.inbound = DOMAIN ctr.inbound,
            !.wasCanceled = {i \in DOMAIN ctr.inbound : ctr.inbound[i].canceled},
            !.outbound = DOMAIN ptr.outbound,
            !.wasFired = {i \in DOMAIN ptr.outbound : ptr.outbound[i].aborted},
            !.fired = [i \in DOMAIN ptr.outbound |->
                          close(ptr, EmptyMap, connectionClosedException).t.outbound[i]],
            !.reads = [i \in DOMAIN ptr.outbound |-> Len(src[i].read)],
            !.reason = connectionClosedException]
    /\ UNCHANGED <<down, rpos, up, upos, src, slog>>
    /\ UNCHANGED <<clientVars, timeVars, otherVars>>

\* The consumer's read loop takes the queued items out of an inbound sequence
\* (each read is a microtask, so the loop empties the queue before the next
\* socket event); a stream whose close was requested closes when it is empty
CRead(id) ==
    /\ id \in DOMAIN sinks
    /\ sinks[id].state = "readable"
    /\ sinks[id].queue # <<>>
    /\ sinks' = [sinks EXCEPT
            ![id].queue = <<>>,
            ![id].state = IF sinks[id].closeReq THEN "closed" ELSE @]
    /\ UNCHANGED <<ptr, ctr, down, rpos, up, upos, src, cut, closeLog, slog>>
    /\ UNCHANGED <<clientVars, timeVars, otherVars>>

\* The consumer cancels an inbound sequence: the stream closes and its cancel
\* callback runs
CCancel(id) ==
    /\ id \in DOMAIN sinks
    /\ sinks[id].state = "readable"
    /\ sinks' = [sinks EXCEPT ![id].state = "closed", ![id].queue = <<>>]
    /\ ctr' = cancelCallback(ctr, id, "canceled").t
    /\ up' = up \o cancelCallback(ctr, id, "canceled").out
    /\ slog' = IF cancelCallback(ctr, id, "canceled").threw
               THEN Append(slog, CancelFailed(rpos)) ELSE slog
    /\ UNCHANGED <<ptr, down, rpos, upos, src, cut, closeLog>>
    /\ UNCHANGED <<clientVars, timeVars, otherVars>>

NextStream ==
    \/ \E k \in 0 .. MaxStreams, type \in ItemTypes :
          /\ ptr.nextStreamId + k - 1 <= MaxStreams
          /\ \A i \in DOMAIN src : src[i].type = type
          /\ PSend(k, type)
    \/ \E id \in DOMAIN ptr.outbound : \E read \in Reads(id) : PStep(id, read)
    \/ PParse
    \/ PPing
    \/ BothClose
    \/ CParse
    \/ \E id \in 1 .. MaxStreams : CRead(id)
    \/ \E id \in 1 .. MaxStreams : CCancel(id)

SpecStream == Init /\ [][NextStream]_vars

----------------------------------------------------------------------------
(* SpecParse: transport.parse fed with whatever frames a peer may write *)

\* The frames a peer may put on the socket, well-formed each, in any order:
\* a response holding lazy sequence 1, and chunk, chunk{type}, payload, done,
\* error and cancel frames naming sequence 1 or 2, and a ping
PeerFrames ==
    { Frame("res", 1, "result", 0, ResultKey, {1}), PingFrame,
      Frame("cancel", 1, "canceled", 0, 0, {}) }
    \cup { Frame("chunk", id, "", 1, 0, {}) : id \in {1, 2} }
    \cup { Frame("done", id, "", 0, 0, {}) : id \in {1, 2} }
    \cup { Frame("error", id, "Error", 0, 0, {}) : id \in {1, 2} }
    \cup { Frame("chunkT", id, type, 0, 0, {}) : id \in {1, 2}, type \in {"string", "Uint8Array"} }
    \cup { rawFrame(1, NthItem(type, 1)) : type \in {"string", "Buffer"} }

\* The peer writes a frame
PeerWrites(data) ==
    /\ ~ctr.closed
    /\ Len(down) < MaxFrames
    /\ down' = Append(down, data)
    /\ UNCHANGED <<ptr, ctr, sinks, rpos, up, upos, src, cut, closeLog, slog>>
    /\ UNCHANGED <<clientVars, timeVars, otherVars>>

NextParse ==
    \/ \E data \in PeerFrames : PeerWrites(data)
    \/ CParse
    \/ \E id \in {1} : CRead(id)
    \/ \E id \in {1} : CCancel(id)

SpecParse == Init /\ [][NextParse]_vars

----------------------------------------------------------------------------
(* SpecProducer: the read loops of sendStream, with sequences of plain values
   and of objects holding a lazy sequence, and reads that fail *)

\* One sequence more than MaxStreams, so that another goes on after a failure
ProducerStreams == MaxStreams + 1

\* Plain values, and objects one of whose fields is a ReadableStream
ProducerTypes == {"json", "nested"}

\* What a read of the local sequence may reject with
ThrownValues == { Thrown("Error", "boom"), Thrown("TypeError", ""), Thrown("", "oops") }

ProducerReads(id) ==
    Reads(id) \cup
    { Read("error", Item("", 0, 0), e) : e \in {v \in ThrownValues : ~ptr.outbound[id].aborted} }

NextProducer ==
    \/ \E k \in 0 .. ProducerStreams, type \in ProducerTypes :
          /\ ptr.nextStreamId + k - 1 <= ProducerStreams
          /\ PSend(k, type)
    \/ \E id \in DOMAIN ptr.outbound : \E read \in ProducerReads(id) : PStep(id, read)
    \/ BothClose

SpecProducer == Init /\ [][NextProducer]_vars

----------------------------------------------------------------------------
(* SpecClosed: send, parse and ping called on a transport after close *)

\* An entry of slog: send or ping called on a closed transport threw
Refused(side, op) == [side |-> side, pos |-> 0, x |-> op]

Logged(entry) == \E i \in DOMAIN slog : slog[i] = entry

\* transport.send(message) on the closed transport of the producing peer
SendAfterClose(k) ==
    /\ ptr.closed
    /\ ~Logged(Refused("producer", "send"))
    /\ LET r == transportSend(ptr, Frame("res", 1, "result", 0, ResultKey, {}), k)
       IN  /\ ptr' = r.t
           /\ down' = down \o r.out
           /\ slog' = IF r.threw THEN Append(slog, Refused("producer", "send")) ELSE slog
    /\ UNCHANGED <<ctr, sinks, rpos, up, upos, src, cut, closeLog>>
    /\ UNCHANGED <<clientVars, timeVars, otherVars>>

\* transport.ping(latency, onResult) on the closed transport of the producing peer
PingAfterClose ==
    /\ ptr.closed
    /\ ~Logged(Refused("producer", "ping"))
    /\ LET r == ping(ptr, PongTimeout, now)
       IN  /\ down' = down \o r.out
           /\ timers' = IF r.threw THEN timers ELSE timers \cup {[owner |-> -1] @@ r.timer}
           /\ slog' = IF r.threw THEN Append(slog, Refused("producer", "ping")) ELSE slog
    /\ UNCHANGED <<ptr, ctr, sinks, rpos, up, upos, src, cut, closeLog>>
    /\ UNCHANGED <<otherVars, clientVars, now, interval, probes>>

\* transport.parse(data) on the closed transport of the consuming peer, with
\* the frame that was in flight when it closed
ParseAfterClose ==
    /\ ctr.closed
    /\ rpos < Len(down)
    /\ LET r == receiveMessage(ctr, sinks, down[rpos + 1], now)
       IN  /\ ctr' = r.t
           /\ sinks' = r.sinks
           /\ up' = up \o r.out
           /\ slog' = IF r.threw THEN Append(slog, Fault("consumer", rpos + 1, ctr, down[rpos + 1]))
                      ELSE slog
    /\ rpos' = rpos + 1
    /\ UNCHANGED <<ptr, down, upos, src, cut, closeLog>>
    /\ UNCHANGED <<clientVars, timeVars, otherVars>>

NextClosed ==
    \/ \E k \in 0 .. MaxStreams, type \in {"json", "string"} :
          /\ ptr.nextStreamId + k - 1 <= MaxStreams
          /\ \A i \in DOMAIN src : src[i].type = type
          /\ PSend(k, type)
    \/ \E id \in DOMAIN ptr.outbound : \E read \in Reads(id) : PStep(id, read)
    \/ CParse
    \/ BothClose
    \/ \E k \in 0 .. MaxStreams : SendAfterClose(k)
    \/ PingAfterClose
    \/ ParseAfterClose

SpecClosed == Init /\ [][NextClosed]_vars

----------------------------------------------------------------------------
(* SpecPing: the liveness probe of the client, with a clock *)

\* A millisecond passes; a timeout or interval that is due runs first
Tick ==
    /\ now < MaxTime
    /\ interval # now
    /\ \A t \in timers : t.due # now
    /\ now' = now + 1
    /\ UNCHANGED <<timers, interval, probes>>
    /\ UNCHANGED <<clientVars, streamVars, otherVars>>

\* The setInterval callback: transport?.ping(pongTimeout, ...)
IntervalFire ==
    /\ interval = now
    /\ interval' = now + PingInterval
    /\ IF Attached /\ ~ping(transport, PongTimeout, now).threw
       THEN /\ wire' = [wire EXCEPT ![sock] = @ \o ping(transport, PongTimeout, now).out]
            /\ timers' = timers \cup {[owner |-> sock] @@ ping(transport, PongTimeout, now).timer}
       ELSE UNCHANGED <<wire, timers>>
    /\ UNCHANGED <<now, probes>>
    /\ UNCHANGED <<queries, nextRequestId, transport, messageQueue, future, loop, attempt,
                   aborted, sock, sockOpen, closeCalls, issued, settled, reported,
                   options, signalReason, connLog>>
    /\ UNCHANGED <<streamVars, otherVars>>

\* The transport a timeout of ping belongs to: the attached one while its
\* socket is open, a closed one afterwards
TransportOf(t) ==
    IF t.owner = sock /\ Attached THEN transport ELSE NoTransport

\* The setTimeout callback of ping: (alive) => { if (!alive) connection.close(1001) }
TimerFire(t) ==
    /\ t \in timers
    /\ t.due = now
    /\ timers' = timers \ {t}
    /\ LET res == pingResult(TransportOf(t), t)
           closes == res.called /\ ~res.alive
       IN  /\ closeCalls' = IF closes THEN Append(closeCalls, <<t.owner, 1001>>) ELSE closeCalls
           /\ probes' = Append(probes, [owner |-> t.owner, seen |-> t.seen,
                                        lastAtPing |-> t.lastAtPing, pingTime |-> t.pingTime,
                                        open |-> res.called, closed1001 |-> closes])
    /\ UNCHANGED <<now, interval>>
    /\ UNCHANGED <<queries, nextRequestId, transport, messageQueue, future, loop, attempt,
                   aborted, sock, sockOpen, wire, issued, settled, reported,
                   options, signalReason, connLog>>
    /\ UNCHANGED <<streamVars, otherVars>>

NextPing ==
    \/ Tick
    \/ AdapterOpen
    \/ IntervalFire
    \/ \E t \in timers : TimerFire(t)
    \/ Receive(PongFrame)
    \/ SocketClose

SpecPing == Init /\ [][NextPing]_vars

----------------------------------------------------------------------------
(* createServer *)

\* The method names a client sends: a registered one, an unregistered one and
\* two names every object inherits from Object.prototype
MethodNames == {"add", "nope", "toString", "__proto__"}

\* The names router() is called with
RouteNames == {"add", "toString"}

\* Properties of Object.prototype: a function and a value that is none
ObjectPrototype == {"toString", "__proto__"}

\* key in methods, methods being a plain object
InMethods(key) == key \in methods \/ key \in ObjectPrototype

\* typeof methods[key] === 'function'
IsFunction(key) == key \in methods \/ key = "toString"

\* `Unknown method: ${request.method}`
UnknownMethod(name) ==
    CASE name = "add" -> "Unknown method: add"
      [] name = "nope" -> "Unknown method: nope"
      [] name = "toString" -> "Unknown method: toString"
      [] name = "__proto__" -> "Unknown method: __proto__"

\* What a handler does: it returns, or throws an RPCClientError or another error
HandlerOutcomes == {"result", "RPCClientError", "TypeError", "RangeError"}

\* error.message of the RPCClientError a handler throws
ClientErrorMessage == "bad input"

\* The response { id, result } and the responses { id, error }, error being a
\* message string or the word true for the boolean
resultResponse(id) == Frame("res", id, "result", 0, ResultKey, {})
errorResponse(id, error) ==
    Frame("res", id, error, 0, IF error = "true" THEN OtherError ELSE StringError, {})

\* The clock when the server's connection is made: Date.now() is far beyond pingTimeout
Epoch == PingTimeout + MaxTime

Max(a, b) == IF a >= b THEN a ELSE b

\* setActivityTimer() on s = [activityTimeout, stimers, timerIds]: a timeout
\* with a delay that is not positive is due at once
setActivityTimer(s, t, time) ==
    IF s.activityTimeout # 0 THEN s
    ELSE [ activityTimeout |-> s.timerIds + 1,
           timerIds |-> s.timerIds + 1,
           stimers |-> s.stimers \cup
               {[ id |-> s.timerIds + 1, fn |-> "checkActivity", pingTime |-> 0,
                  due |-> time + Max(PingTimeout - (time - t.lastMessageTime), 0) ]} ]

\* onError(error), for the request id (0: none)
onError(h, id, error) == [h EXCEPT !.errors = Append(@, [id |-> id, error |-> error])]

\* router(routes) for one key: a name found in methods throws Duplicate method
Router(key) ==
    /\ ~InMethods(key)
    /\ methods' = methods \cup {key}
    /\ UNCHANGED <<str, activityTimeout, stimers, timerIds, sopen, sout, handlers, shist>>
    /\ UNCHANGED <<clientVars, streamVars, timeVars, subVars, libVars>>

\* message(data) of the server's connection
SMessage(data) ==
    /\ sopen
    /\ shist.arrivals < MaxFrames
    /\ LET s == setActivityTimer([activityTimeout |-> activityTimeout, stimers |-> stimers,
                                  timerIds |-> timerIds], str, now)
           r == receiveMessage(str, EmptyMap, data, now)
           request == r.ret
           h == [shist EXCEPT
                    !.arrivals = @ + 1,
                    !.requests = IF data.k = "req" THEN @ + 1 ELSE @,
                    !.reqs = IF data.k = "req"
                             THEN Append(@, [method |-> data.x,
                                             registered |-> data.x \in methods])
                             ELSE @]
       IN  /\ activityTimeout' = s.activityTimeout
           /\ stimers' = s.stimers
           /\ timerIds' = s.timerIds
           /\ str' = r.t
           /\ IF r.threw
              THEN /\ shist' = onError(h, 0, "invariant")
                   /\ UNCHANGED <<sout, handlers>>
              ELSE IF request = NoMessage
              THEN /\ sout' = sout \o r.out
                   /\ shist' = h
                   /\ UNCHANGED handlers
              ELSE IF request.k # "req"
              THEN /\ shist' = onError(h, 0, "Unknown message format")
                   /\ UNCHANGED <<sout, handlers>>
              ELSE IF ~InMethods(request.x)
              THEN /\ sout' = sout \o transportSend(r.t,
                                    errorResponse(request.id, UnknownMethod(request.x)), 0).out
                   /\ shist' = h
                   /\ UNCHANGED handlers
              ELSE IF request.x \notin methods
              THEN \* an inherited property is called, or is not callable
                   /\ shist' = IF IsFunction(request.x)
                               THEN [h EXCEPT !.invoked = Append(@, request.id)]
                               ELSE onError(h, request.id, "TypeError")
                   /\ UNCHANGED <<sout, handlers>>
              ELSE /\ handlers' = [i \in (DOMAIN handlers) \cup {request.id} |->
                                      IF i = request.id THEN "running" ELSE handlers[i]]
                   /\ shist' = [h EXCEPT !.invoked = Append(@, request.id)]
                   /\ UNCHANGED sout
    /\ UNCHANGED <<methods, sopen>>
    /\ UNCHANGED <<clientVars, streamVars, timeVars, subVars, libVars>>

\* The function of a route returns or throws: the rest of the async wrapper
\* that router() stored in methods
HandlerSettle(id, outcome) ==
    /\ id \in DOMAIN handlers
    /\ handlers[id] = "running"
    /\ handlers' = [handlers EXCEPT ![id] = outcome]
    /\ LET message == CASE outcome = "result" -> resultResponse(id)
                        [] outcome = "RPCClientError" -> errorResponse(id, ClientErrorMessage)
                        [] OTHER -> errorResponse(id, "true")
           respond == transportSend(str, message, 0)
       IN  IF respond.threw
           THEN \* respond throws inside the catch block: the promise of the wrapper rejects
                /\ shist' = [shist EXCEPT !.unhandled = Append(@, id)]
                /\ UNCHANGED sout
           ELSE /\ sout' = sout \o respond.out
                /\ shist' = IF outcome \in {"result", "RPCClientError"} THEN shist
                            ELSE onError(shist, id, outcome)
    /\ UNCHANGED <<methods, str, activityTimeout, stimers, timerIds, sopen>>
    /\ UNCHANGED <<clientVars, streamVars, timeVars, subVars, libVars>>

\* A timeout of the server's connection runs: checkActivity, or the callback
\* ping started, which calls onPong unless the transport is closed
STimerFire(t) ==
    /\ t \in stimers
    /\ t.due = now
    /\ LET s == [activityTimeout |-> activityTimeout, stimers |-> stimers \ {t},
                 timerIds |-> timerIds]
           p == ping(str, PongTimeout, now)
           res == pingResult(str, t)
           next == IF t.fn = "checkActivity"
                   THEN IF now - str.lastMessageTime < PingTimeout
                        THEN setActivityTimer(s, str, now)
                        ELSE IF p.threw THEN s
                        ELSE [s EXCEPT !.timerIds = @ + 1,
                                       !.stimers = @ \cup
                                          {[ id |-> s.timerIds + 1, fn |-> "onPong",
                                             pingTime |-> p.timer.pingTime,
                                             due |-> p.timer.due ]}]
                   ELSE IF res.called /\ res.alive THEN setActivityTimer(s, str, now)
                   ELSE s
           pinged == t.fn = "checkActivity" /\ now - str.lastMessageTime >= PingTimeout
           closes == t.fn = "onPong" /\ res.called /\ ~res.alive
       IN  /\ activityTimeout' = next.activityTimeout
           /\ stimers' = next.stimers
           /\ timerIds' = next.timerIds
           /\ sout' = IF pinged THEN sout \o p.out ELSE sout
           /\ shist' = [shist EXCEPT
                           !.pings = IF pinged /\ ~p.threw THEN @ \cup {now} ELSE @,
                           !.closeReqs = IF closes THEN @ + 1 ELSE @,
                           !.errors = IF pinged /\ p.threw
                                      THEN Append(@, [id |-> 0, error |-> "invariant"]) ELSE @]
    /\ UNCHANGED <<methods, str, sopen, handlers>>
    /\ UNCHANGED <<clientVars, streamVars, timeVars, subVars, libVars>>

\* close(reason) of the server's connection: the socket has closed
SClose ==
    /\ sopen
    /\ sopen' = FALSE
    /\ stimers' = {t \in stimers : t.id # activityTimeout}
    /\ str' = close(str, EmptyMap, connectionClosedException).t
    /\ UNCHANGED <<methods, activityTimeout, timerIds, sout, handlers, shist>>
    /\ UNCHANGED <<clientVars, streamVars, timeVars, subVars, libVars>>

\* A millisecond passes on the server; a timeout that is due runs first
STick ==
    /\ now < Epoch + MaxTime
    /\ \A t \in stimers : t.due # now
    /\ now' = now + 1
    /\ UNCHANGED <<timers, interval, probes>>
    /\ UNCHANGED <<clientVars, streamVars, serverVars, subVars, libVars>>

----------------------------------------------------------------------------
(* SpecAlive: the liveness timer of a server connection, with a clock *)

InitAlive ==
    /\ InitClientVars /\ InitStreamVars /\ InitServerVars /\ InitSubVars
    /\ InitLibVars
    /\ options = DefaultOptions
    /\ now = Epoch
    /\ timers = {}
    /\ interval = NoInterval
    /\ probes = <<>>

NextAlive ==
    \/ STick
    \/ \E data \in {PingFrame, PongFrame} : SMessage(data)
    \/ \E t \in stimers : STimerFire(t)
    \/ SClose

SpecAlive == InitAlive /\ [][NextAlive]_vars

----------------------------------------------------------------------------
(* SpecServer: requests, handlers and responses of a server connection *)

NextServer ==
    \/ \E key \in RouteNames : Router(key)
    \/ \E name \in MethodNames : SMessage(requestMessage(shist.requests + 1, name))
    \/ \E id \in DOMAIN handlers, outcome \in HandlerOutcomes : HandlerSettle(id, outcome)
    \/ SClose

SpecServer == Init /\ [][NextServer]_vars

----------------------------------------------------------------------------
(* Ctx, createContext, makeWare and the dispatch of a request to a handler *)

\* The keys of the connections made by connect(client): client.key
Clients == {"A", "B"}

\* The readers made by createContext(0)
Readers == {"numberContext", "mwCounterCtx"}

\* createContext(initialValue): the value a new Ctx holds
InitialValue == 0

\* What a function returns when it returns nothing
Undefined == -1

\* The routes registered through router(): set(val) writes numberContext,
\* get() reads it, getLater() reads it after an await
CtxRoutes == {"set", "get", "getLater"}

\* The routes registered through use(fn)...routes()
WareRoutes == {"readMwCounterCtx"}

\* The middleware functions: inc is mwCounterCtx().update((n) => n + 1),
\* quiet touches no context
Middleware == {"inc", "quiet"}

\* The reader a function calls, if it calls one
ReaderOf(f) ==
    CASE f \in {"set", "get"} -> "numberContext"
      [] f \in {"inc", "readMwCounterCtx"} -> "mwCounterCtx"
      [] OTHER -> ""

\* reader(key): contextData.get(reader), made with the initial value when missing
contextOf(data, key, reader) ==
    IF <<key, reader>> \in DOMAIN data THEN data[<<key, reader>>] ELSE InitialValue

\* The Ctx of key and reader after set(value)
withContext(data, key, reader, value) ==
    [p \in (DOMAIN data) \cup {<<key, reader>>} |->
        IF p = <<key, reader>> THEN value ELSE data[p]]

\* One function called while Ctx.currentClient is key; r holds Ctx.data, what
\* was returned last and whether a call threw.  getContextKey throws when no
\* key is bound.
callFn(f, key, val, r) ==
    IF r.threw THEN r
    ELSE IF ReaderOf(f) = "" THEN [r EXCEPT !.ran = Append(@, f)]
    ELSE IF key = NoClient THEN [r EXCEPT !.ran = Append(@, f), !.threw = TRUE]
    ELSE LET old == contextOf(r.data, key, ReaderOf(f))
             new == CASE f = "set" -> val
                      [] f = "inc" -> old + 1
                      [] OTHER -> old
         IN  [ data |-> withContext(r.data, key, ReaderOf(f), new),
               ret |-> IF f \in {"get", "readMwCounterCtx"} THEN old ELSE Undefined,
               threw |-> FALSE,
               ran |-> Append(r.ran, f) ]

\* The functions fns called in order
RECURSIVE callAll(_, _, _, _)
callAll(fns, key, val, r) ==
    IF fns = <<>> THEN r
    ELSE callAll(Tail(fns), key, val, callFn(Head(fns), key, val, r))

\* Mutant of wareMethod: the route runs before the middleware
wareMethodBodyFirst(stk, key) == <<key>> \o stk

\* makeWare(stack).routes(routes)[key]: for (const fn of stack) fn(); return routes[key](...args)
wareMethod(stk, key) == stk \o <<key>>

\* The functions methods[name] calls before its first await
FunctionsOf(name) ==
    IF name \in DOMAIN ware THEN ware[name].fns
    ELSE IF name = "getLater" THEN <<>>
    ELSE <<name>>

\* One entry of ctxLog: the connection the handler was dispatched for, the
\* method and its param, the key that was bound, the functions run, what was
\* returned
Invocation(conn, method, val, key, r) ==
    [ conn |-> conn, method |-> method, arg |-> val, key |-> key, ran |-> r.ran,
      ret |-> r.ret, threw |-> r.threw ]

\* The requests dispatched so far
Dispatched == Cardinality({i \in DOMAIN ctxLog : ctxLog[i].method # "resumed"})

\* server.use(fn): makeWare([fn])
ServerUse(fn) ==
    /\ stack' = <<fn>>
    /\ UNCHANGED <<currentClient, ctxData, tasks, ctxLog, ware>>
    /\ UNCHANGED <<clientVars, streamVars, timeVars, serverVars, subVars, chanVars>>

\* ware.use(fn): makeWare([...stack, fn])
WareUse(fn) ==
    /\ stack # <<>>
    /\ Len(stack) < MaxStack
    /\ stack' = Append(stack, fn)
    /\ UNCHANGED <<currentClient, ctxData, tasks, ctxLog, ware>>
    /\ UNCHANGED <<clientVars, streamVars, timeVars, serverVars, subVars, chanVars>>

\* server.router({...ware.routes({key})}): the method made by routes() is registered
RoutesOf(key) ==
    /\ stack # <<>>
    /\ ~InMethods(key)
    /\ methods' = methods \cup {key}
    /\ ware' = [k \in (DOMAIN ware) \cup {key} |->
                  IF k = key THEN [stack |-> stack, fns |-> wareMethod(stack, key)]
                  ELSE ware[k]]
    /\ UNCHANGED <<currentClient, ctxData, tasks, ctxLog, stack>>
    /\ UNCHANGED <<str, activityTimeout, stimers, timerIds, sopen, sout, handlers, shist>>
    /\ UNCHANGED <<clientVars, streamVars, timeVars, subVars, chanVars>>

\* message(data) of connection conn, data being a request for method name with
\* one param: lines 633-642.  The responses are left to SMessage.
Dispatch(conn, name, val) ==
    /\ Dispatched < MaxCalls
    /\ LET r0 == [data |-> ctxData, ret |-> Undefined, threw |-> FALSE, ran |-> <<>>]
           r == callAll(FunctionsOf(name), conn, val, r0)
       IN  IF ~InMethods(name)
           THEN \* Unknown method: nothing is bound
                /\ ctxLog' = Append(ctxLog, Invocation(conn, name, val, NoClient, r0))
                /\ UNCHANGED <<currentClient, ctxData, tasks>>
           ELSE IF name \notin methods /\ ~IsFunction(name)
           THEN \* methods[name] is not callable: the TypeError skips line 642
                /\ currentClient' = conn
                /\ ctxLog' = Append(ctxLog, Invocation(conn, name, val, conn,
                                                       [r0 EXCEPT !.threw = TRUE]))
                /\ UNCHANGED <<ctxData, tasks>>
           ELSE IF name \notin methods
           THEN \* a function of Object.prototype
                /\ currentClient' = NoClient
                /\ ctxLog' = Append(ctxLog, Invocation(conn, name, val, conn, r0))
                /\ UNCHANGED <<ctxData, tasks>>
           ELSE /\ currentClient' = NoClient
                /\ ctxData' = r.data
                /\ ctxLog' = Append(ctxLog, Invocation(conn, name, val, conn, r))
                /\ tasks' = IF name = "getLater"
                            THEN tasks \cup {[id |-> Len(ctxLog) + 1, conn |-> conn]}
                            ELSE tasks
    /\ UNCHANGED <<stack, ware>>
    /\ UNCHANGED <<clientVars, streamVars, timeVars, serverVars, subVars, chanVars>>

\* The handler getLater goes on after its await and calls numberContext().get()
Resume(t) ==
    /\ t \in tasks
    /\ tasks' = tasks \ {t}
    /\ LET r == callFn("get", currentClient, 0,
                       [data |-> ctxData, ret |-> Undefined, threw |-> FALSE, ran |-> <<>>])
       IN  /\ ctxData' = r.data
           /\ ctxLog' = Append(ctxLog, Invocation(t.conn, "resumed", 0, currentClient, r))
    /\ UNCHANGED <<currentClient, stack, ware>>
    /\ UNCHANGED <<clientVars, streamVars, timeVars, serverVars, subVars, chanVars>>

\* The method names the clients send: the routes and a name every object
\* inherits from Object.prototype
CtxMethodNames == CtxRoutes \cup {"__proto__"}

\* The param a client passes: a value for set, nothing otherwise
CtxValues(name) == IF name = "set" THEN {1, 2} ELSE {0}

NextContext ==
    \/ \E key \in CtxRoutes : Router(key)
    \/ \E conn \in Clients, name \in CtxMethodNames : \E val \in CtxValues(name) :
            Dispatch(conn, name, val)
    \/ \E t \in tasks : Resume(t)

SpecContext == Init /\ [][NextContext]_vars

\* Routes with middleware, called by two connections
NextWare ==
    \/ \E fn \in Middleware : ServerUse(fn)
    \/ \E fn \in Middleware : WareUse(fn)
    \/ \E key \in WareRoutes : RoutesOf(key)
    \/ \E key \in {"get"} : Router(key)
    \/ \E conn \in Clients, name \in WareRoutes \cup {"get", "__proto__"} :
            Dispatch(conn, name, 0)

SpecWare == Init /\ [][NextWare]_vars

----------------------------------------------------------------------------
(* createChannel(onSubscribe, onUnsubscribe) *)

\* The first argument the subscribers pass to pull
PullArgs == {3, 10}

\* The callback the channel is made with, as in the test: it answers with its
\* argument plus channel.size
onSubscribe(a, size) == a + size

\* get size(): subs.size
size(s) == Len(s)

\* What has happened to the channel so far, counted: the calls of pull and
\* push, the subscribers added and the cancels
Events ==
    Cardinality(DOMAIN pulls) + Len(pushed)
        + Cardinality({i \in DOMAIN pulls : pulls[i].addedAt # Never})
        + Cardinality({i \in DOMAIN pulls : pulls[i].canceledAt # Never})

\* Mutant of startAdds: the subscriber is added before onSubscribe is awaited
startAddsFirst(s, i, phase) == IF phase = "pull" THEN Append(s, i) ELSE s

\* start(controller): subs.add(controller) comes after the await of onSubscribe
startAdds(s, i, phase) == IF phase = "resume" THEN Append(s, i) ELSE s

\* Mutant of cancelDeletes: a cancelled subscriber is left in the set
cancelDeletesNothing(s, i) == s

\* cancel(): subs.delete(c)
cancelDeletes(s, i) == SelectSeq(s, LAMBDA c : c # i)

\* push(payload): controller.enqueue(payload) for the controllers of subs in
\* insertion order; an enqueue that throws ends the loop.  The number of
\* controllers served.
RECURSIVE served(_, _)
served(s, ps) ==
    IF s = <<>> \/ ps[Head(s)].state # "readable" THEN 0
    ELSE 1 + served(Tail(s), ps)

\* channel.pull(a): the stream is made and start runs up to its await;
\* onSubscribe has been called by then
Pull(a) ==
    /\ Cardinality(DOMAIN pulls) < MaxPulls
    /\ LET i == Cardinality(DOMAIN pulls) + 1
       IN  /\ pulls' = [k \in (DOMAIN pulls) \cup {i} |->
                           IF k # i THEN pulls[k]
                           ELSE [ arg |-> a, phase |-> "starting", state |-> "readable",
                                  first |-> onSubscribe(a, size(subs)), log |-> <<>>,
                                  pullAt |-> Events + 1, addedAt |-> Never,
                                  canceledAt |-> Never ]]
           /\ subs' = startAdds(subs, i, "pull")
    /\ UNCHANGED pushed
    /\ UNCHANGED <<clientVars, streamVars, timeVars, serverVars, subVars, ctxVars>>

\* start goes on after its await: controller.enqueue(value) throws when the
\* stream was cancelled meanwhile, and then the controller is not added
StartResumes(i) ==
    /\ i \in DOMAIN pulls
    /\ pulls[i].phase = "starting"
    /\ IF pulls[i].state = "readable"
       THEN /\ pulls' = [pulls EXCEPT ![i].phase = "started",
                                      ![i].log = Append(@, pulls[i].first),
                                      ![i].addedAt = Events + 1]
            /\ subs' = startAdds(subs, i, "resume")
       ELSE /\ pulls' = [pulls EXCEPT ![i].phase = "failed"]
            /\ UNCHANGED subs
    /\ UNCHANGED pushed
    /\ UNCHANGED <<clientVars, streamVars, timeVars, serverVars, subVars, ctxVars>>

\* channel.push(payload); the payloads are numbered in push order
Push ==
    /\ Len(pushed) < MaxPushes
    /\ LET payload == Len(pushed) + 1
           n == served(subs, pulls)
       IN  /\ pulls' = [i \in DOMAIN pulls |->
                           IF \E k \in 1 .. n : subs[k] = i
                           THEN [pulls[i] EXCEPT !.log = Append(@, payload)]
                           ELSE pulls[i]]
           /\ pushed' = Append(pushed, [payload |-> payload, at |-> Events + 1,
                                        threw |-> n < Len(subs)])
    /\ UNCHANGED subs
    /\ UNCHANGED <<clientVars, streamVars, timeVars, serverVars, subVars, ctxVars>>

\* The subscriber cancels its stream: the stream closes and cancel() runs
Cancel(i) ==
    /\ i \in DOMAIN pulls
    /\ pulls[i].state = "readable"
    /\ pulls' = [pulls EXCEPT ![i].state = "closed", ![i].canceledAt = Events + 1]
    /\ subs' = cancelDeletes(subs, i)
    /\ UNCHANGED pushed
    /\ UNCHANGED <<clientVars, streamVars, timeVars, serverVars, subVars, ctxVars>>

NextChannel ==
    \/ \E a \in PullArgs : Pull(a)
    \/ \E i \in DOMAIN pulls : StartResumes(i)
    \/ Push
    \/ \E i \in DOMAIN pulls : Cancel(i)

SpecChannel == Init /\ [][NextChannel]_vars

----------------------------------------------------------------------------
(* SpecSubscribe: query(...).subscribe(observer, options) on a client *)

\* The methods and params a subscription is started with
SubMethods == {"watch", "tail"}
SubParams == {1, 2}

\* promise.subscribe(observer, options) just called on the promise of a call
NewAttachment(method, params) ==
    [method |-> method, params |-> params, phase |-> "pending", listening |-> FALSE, next |-> 0]

\* Mutant of shouldResubscribe: every failure starts the call again
shouldResubscribeAny(error) == TRUE

\* subscribe's catch: error === connectionClosedException
shouldResubscribe(error) == error = connectionClosedException

\* The frames a server sends for call c: a response holding a lazy sequence
\* (whose stream id is taken to be c), a response holding none, an error
\* response, and the frames of the sequence
SubFrames(c) ==
    { Frame("res", c, "result", 0, 0, {c}), Frame("res", c, "result", 0, 0, {}),
      Frame("res", c, "remote error", 0, StringError, {}),
      Frame("done", c, "", 0, 0, {}), Frame("error", c, "stream failed", 0, 0, {}) }
    \cup { Frame("chunk", c, "", v, 0, {}) : v \in 1 .. MaxItems }

\* A server answers the requests it got on this socket and sends the frames
\* of a sequence the client knows, its items numbered in order
Deliverable(data) ==
    IF ~sockOpen THEN FALSE
    ELSE IF data.k = "res"
    THEN /\ data.id \in DOMAIN queries
         /\ \E i \in DOMAIN wire[sock] : IsReqOf(wire[sock][i], data.id)
    ELSE /\ data.id \in DOMAIN transport.inbound
         /\ data.k = "chunk" => data.v = Len(sinks[data.id].log) + 1

\* The callbacks that run as microtasks, before the next event
ThenReady(c) == sub[c].phase = "pending" /\ future[c].state = "resolved"
CatchReady(c) == sub[c].phase = "pending" /\ future[c].state = "rejected"
ReadReady(c) ==
    /\ sub[c].phase = "reading"
    /\ sinks[c].state # "readable" \/ sinks[c].queue # <<>>
MicrotaskPending == \E c \in DOMAIN sub : ThenReady(c) \/ CatchReady(c) \/ ReadReady(c)

\* router.method(...params).subscribe(observer, options)
Subscribe(method, params) ==
    /\ DOMAIN sub = {}
    /\ query(method, params)
    /\ sub' = [i \in {nextRequestId} |-> NewAttachment(method, params)]
    /\ reported' = NoError
    /\ UNCHANGED <<subSignal, observed>>
    /\ UNCHANGED <<streamVars, timeVars, serverVars, libVars>>

\* subscribe's catch for connectionClosedException:
\* query(method, params).subscribe(observer, options)
Resubscribe(c) ==
    /\ query(sub[c].method, sub[c].params)
    /\ sub' = [i \in (DOMAIN sub) \cup {nextRequestId} |->
                 IF i = nextRequestId THEN NewAttachment(sub[c].method, sub[c].params)
                 ELSE IF i = c
                 THEN [sub[c] EXCEPT !.phase = "reissued", !.listening = FALSE,
                                     !.next = nextRequestId]
                 ELSE sub[i]]
    /\ reported' = NoError

\* The error sink of subscribe: options.error or the client's onError
SubFails(c, error) ==
    /\ sub' = [sub EXCEPT ![c].phase = "failed", ![c].listening = FALSE]
    /\ reported' = [msg |-> error, id |-> c]
    /\ UNCHANGED <<queries, nextRequestId, transport, messageQueue, future, loop, attempt,
                   aborted, sock, sockOpen, wire, closeCalls, issued, settled,
                   options, signalReason, connLog>>

\* promise.then: the result must be a ReadableStream; a reader is taken, the
\* abort listener added and the first read started
SubThen(c) ==
    /\ c \in DOMAIN sub
    /\ ThenReady(c)
    /\ IF c \in DOMAIN sinks
       THEN /\ sub' = [sub EXCEPT ![c].phase = "reading", ![c].listening = TRUE]
            /\ reported' = NoError
            /\ UNCHANGED <<queries, nextRequestId, transport, messageQueue, future, loop,
                           attempt, aborted, sock, sockOpen, wire, closeCalls, issued,
                           settled, options, signalReason, connLog>>
       ELSE SubFails(c, "Expected ReadableStream")
    /\ UNCHANGED <<subSignal, observed>>
    /\ UNCHANGED <<streamVars, timeVars, serverVars, libVars>>

\* promise.catch when the call was rejected
SubCatch(c) ==
    /\ c \in DOMAIN sub
    /\ CatchReady(c)
    /\ IF shouldResubscribe(future[c].value)
       THEN Resubscribe(c)
       ELSE SubFails(c, future[c].value)
    /\ UNCHANGED <<subSignal, observed>>
    /\ UNCHANGED <<streamVars, timeVars, serverVars, libVars>>

\* reader.read() settles: an item goes to the observer; done ends the loop;
\* an error leaves it through finally, for the catch
SubRead(c) ==
    /\ c \in DOMAIN sub
    /\ ReadReady(c)
    /\ IF sinks[c].state = "readable"
       THEN /\ observed' = Append(observed, [call |-> c, value |-> Head(sinks[c].queue)])
            /\ sinks' = [sinks EXCEPT
                    ![c].queue = Tail(@),
                    ![c].state = IF sinks[c].closeReq /\ Len(sinks[c].queue) = 1
                                 THEN "closed" ELSE @]
            /\ reported' = NoError
            /\ UNCHANGED sub
            /\ UNCHANGED <<queries, nextRequestId, transport, messageQueue, future, loop,
                           attempt, aborted, sock, sockOpen, wire, closeCalls, issued,
                           settled, options, signalReason, connLog>>
       ELSE /\ UNCHANGED <<observed, sinks>>
            /\ IF sinks[c].state = "closed"
               THEN /\ sub' = [sub EXCEPT ![c].phase = "ended", ![c].listening = FALSE]
                    /\ reported' = NoError
                    /\ UNCHANGED <<queries, nextRequestId, transport, messageQueue, future,
                                   loop, attempt, aborted, sock, sockOpen, wire, closeCalls,
                                   issued, settled, options, signalReason, connLog>>
               ELSE IF shouldResubscribe(sinks[c].err)
               THEN Resubscribe(c)
               ELSE SubFails(c, sinks[c].err)
    /\ UNCHANGED subSignal
    /\ UNCHANGED <<ptr, ctr, down, rpos, up, upos, src, cut, closeLog, slog>>
    /\ UNCHANGED <<timeVars, serverVars, libVars>>

\* The attachments whose abort listener is registered
Listening == {c \in DOMAIN sub : sub[c].listening}

\* options.signal of subscribe is aborted: every registered onAbort runs
\* reader.cancel(reason), which closes a readable stream and runs its cancel callback
SubAbort ==
    /\ DOMAIN sub # {}
    /\ ~subSignal.aborted
    /\ subSignal' = [aborted |-> TRUE, seen |-> Len(observed),
                     streams |-> DOMAIN transport.inbound]
    /\ LET canceled == {c \in Listening : sinks[c].state = "readable"}
       IN  /\ sinks' = [i \in DOMAIN sinks |->
                           IF i \in canceled
                           THEN [sinks[i] EXCEPT !.state = "closed", !.queue = <<>>]
                           ELSE sinks[i]]
           /\ IF canceled = {}
              THEN UNCHANGED <<transport, wire>>
              ELSE LET c == CHOOSE c \in canceled : TRUE
                       r == cancelCallback(transport, c, "aborted")
                   IN  /\ transport' = IF r.threw THEN transport ELSE r.t
                       /\ wire' = [wire EXCEPT ![sock] = @ \o r.out]
    /\ reported' = NoError
    /\ UNCHANGED <<sub, observed>>
    /\ UNCHANGED <<queries, nextRequestId, messageQueue, future, loop, attempt, aborted,
                   sock, sockOpen, closeCalls, issued, settled, options, signalReason,
                   connLog>>
    /\ UNCHANGED <<ptr, ctr, down, rpos, up, upos, src, cut, closeLog, slog>>
    /\ UNCHANGED <<timeVars, serverVars, libVars>>

\* Events wait until the microtasks have run
NextSubscribe ==
    \/ ~MicrotaskPending /\ \E method \in SubMethods, params \in SubParams :
                                Subscribe(method, params)
    \/ ~MicrotaskPending /\ AdapterOpen
    \/ ~MicrotaskPending /\ SocketClose
    \/ ~MicrotaskPending /\ \E c \in DOMAIN sub : \E data \in SubFrames(c) :
                                Deliverable(data) /\ Receive(data)
    \/ ~MicrotaskPending /\ SubAbort
    \/ \E c \in DOMAIN sub : SubThen(c)
    \/ \E c \in DOMAIN sub : SubCatch(c)
    \/ \E c \in DOMAIN sub : SubRead(c)

SpecSubscribe == Init /\ [][NextSubscribe]_vars

----------------------------------------------------------------------------
(* Properties of SpecClient *)

IsReq(f) == f.k = "req"

\* The request frames written to socket s, in order
Requests(s) == SelectSeq(wire[s], IsReq)

\* The places <<socket, position>> where the request frame of id was written
Writes(id) ==
    {w \in UNION {{<<s, i>> : i \in DOMAIN wire[s]} : s \in DOMAIN wire} :
        IsReq(wire[w[1]][w[2]]) /\ wire[w[1]][w[2]].id = id}

\* The close callback of socket s has run
SocketClosed(s) == s < sock \/ (s = sock /\ ~sockOpen)

ByResponse(h) == {i \in DOMAIN settled[h] : settled[h][i].by = "response"}

\* C1: the handle of a call is invoked by a response frame only when the frame
\* carries the call's own id, and by at most one response frame; the future is
\* pending until the first invocation (by a response or by a socket close) and
\* keeps what that invocation gave it, so a later frame or close settles nothing.
C1_SettledOnceByOwnId ==
    \A h \in DOMAIN settled :
        /\ \A i \in ByResponse(h) : settled[h][i].id = h
        /\ Cardinality(ByResponse(h)) <= 1
        /\ future[h].state = "pending" <=> settled[h] = << >>
        /\ settled[h] # << >> =>
              IF settled[h][1].by = "close"
              THEN future[h] = [state |-> "rejected", value |-> connectionClosedException]
              ELSE future[h].value \in {"result", "remote error", "request failed"}

C1_Witness ==
    \E h \in DOMAIN settled :
        /\ ByResponse(h) # {}
        /\ reported = [msg |-> "Unknown response ID", id |-> h]
        /\ \E g \in DOMAIN settled : g # h /\ ByResponse(g) # {}

\* C2: the requests queued while no transport was attached are written to the
\* next attached socket, and to no other, each once, in the order issued and
\* before every request issued after the attach.
C2_QueueFlushedInOrder ==
    /\ \A s \in DOMAIN wire : \A i \in DOMAIN Requests(s) : \A j \in DOMAIN Requests(s) :
          i < j => /\ Requests(s)[i].id < Requests(s)[j].id
                   /\ issued[Requests(s)[j].id].queued => issued[Requests(s)[i].id].queued
    /\ \A id \in DOMAIN issued :
          issued[id].queued =>
              IF sock > issued[id].epoch
              THEN /\ Cardinality(Writes(id)) = 1
                   /\ \A w \in Writes(id) : w[1] = issued[id].epoch + 1
              ELSE /\ Writes(id) = {}
                   /\ \E i \in DOMAIN messageQueue : messageQueue[i].id = id

C2_Witness ==
    \E s \in DOMAIN wire :
        /\ Len(Requests(s)) >= 3
        /\ issued[Requests(s)[1].id].queued
        /\ issued[Requests(s)[2].id].queued
        /\ ~issued[Requests(s)[3].id].queued

\* C3: once the close callback of a socket has run, no call whose request was
\* written to that socket is pending; one that had no response by then was
\* rejected by that close with the ConnectionClosed sentinel, and stays so.
C3_InFlightRejectedOnClose ==
    \A id \in DOMAIN future : \A w \in Writes(id) :
        SocketClosed(w[1]) =>
            /\ future[id].state # "pending"
            /\ settled[id] # << >>
            /\ settled[id][1].by = "close" =>
                  /\ settled[id][1].id = w[1]
                  /\ future[id] = [state |-> "rejected", value |-> connectionClosedException]

C3_Witness ==
    \E id \in DOMAIN future, a \in DOMAIN future :
        /\ Len(settled[id]) = 2
        /\ settled[id][1].by = "close" /\ settled[id][2].by = "close"
        /\ settled[a] # << >> /\ settled[a][1].by = "response"
        /\ Writes(id) # {} /\ Writes(a) # {}

\* C4: the request frame of a request id is written to a socket at most once
\* over all sockets, so a call that was in flight when its socket closed is
\* not sent again on a later transport.
C4_NeverResent ==
    \A id \in DOMAIN issued : Cardinality(Writes(id)) <= 1

C4_Witness ==
    \E id \in DOMAIN issued :
        /\ settled[id] # << >> /\ settled[id][1].by = "close"
        /\ Writes(id) # {}
        /\ sock = 2 /\ sockOpen
        /\ Requests(2) # << >>

----------------------------------------------------------------------------
(* Properties of SpecPing *)

\* C10 as stated: a probe during which the transport parsed no frame closes
\* the socket with code 1001, and a probe during which it parsed one does not.
C10_ClosesIffNoFrame ==
    \A i \in DOMAIN probes :
        /\ ~probes[i].seen => probes[i].closed1001
        /\ probes[i].seen => ~probes[i].closed1001

\* C10 amended: when pongTimeout has passed since a ping and the transport is
\* still open, the client closes the socket with code 1001 if the transport
\* has parsed no frame since the ping nor earlier in the millisecond of the
\* ping; a probe during which a frame was parsed, or whose transport was
\* closed in the meantime, does not close the socket.
C10_ClosesIffOpenAndSilent ==
    \A i \in DOMAIN probes :
        probes[i].closed1001 <=>
            /\ probes[i].open
            /\ ~probes[i].seen
            /\ probes[i].lastAtPing < probes[i].pingTime

C10_Witness ==
    /\ \E i \in DOMAIN probes : probes[i].closed1001
    /\ \E i \in DOMAIN probes : probes[i].seen /\ probes[i].open
    /\ \E i \in DOMAIN closeCalls : closeCalls[i][2] = 1001

----------------------------------------------------------------------------
(* Properties of SpecStream *)

IsPrefix(a, b) == Len(a) <= Len(b) /\ \A i \in DOMAIN a : a[i] = b[i]

\* Positions of down holding the done or error frame of stream id
Terminators(id) ==
    {i \in DOMAIN down : down[i].k \in {"done", "error"} /\ down[i].id = id}

IsChunkOf(f, id) == f.k \in {"chunk", "chunkT", "raw"} /\ f.id = id

\* The socket closed while the producer of stream id was still running
ClosedFirst(id) == closeLog.ran /\ id \in closeLog.outbound

\* C5: a producer writes at most one terminating frame (done or error, never
\* both) and no chunk of its id after it; a producer that ended before the
\* transport was closed has written exactly one.
C5_OneTerminator ==
    \A id \in DOMAIN src :
        /\ Cardinality(Terminators(id)) <= 1
        /\ src[id].fin /\ ~ClosedFirst(id) => Cardinality(Terminators(id)) = 1
        /\ \A i \in Terminators(id) : \A j \in DOMAIN down :
                j > i => ~IsChunkOf(down[j], id)

C5_Witness ==
    \E id \in DOMAIN src :
        /\ src[id].fin /\ src[id].read # <<>> /\ ~ClosedFirst(id)
        /\ Terminators(id) # {}
        /\ \E i \in DOMAIN down : IsChunkOf(down[i], id)

\* The value the consumer is to get for an item: the same content, of the
\* class named by the announced type tag
Received(items) ==
    [i \in DOMAIN items |-> Item(chunkType(items[i]), items[i].val, items[i].len)]

\* C6: the items enqueued into the sink of a stream are the items its producer
\* read, in the same order, none duplicated or skipped: a prefix of them at
\* any time, all of them once done has closed the sink.
C6_SameItemsInOrder ==
    \A id \in DOMAIN sinks :
        /\ IsPrefix(sinks[id].log, Received(src[id].read))
        /\ sinks[id].closeReq => sinks[id].log = Received(src[id].read)

C8_MessageFirst ==
    /\ \A i \in DOMAIN down :
          down[i].k \in {"chunk", "chunkT", "raw", "done", "error"} =>
              \E j \in 1 .. (i - 1) : down[j].k = "res" /\ down[i].id \in down[j].s
    /\ \A id \in DOMAIN src : src[id].reg

C8_Witness ==
    \E i \in DOMAIN down : \E j \in DOMAIN down :
        /\ j > i /\ down[i].k = "res" /\ down[j].id \in down[i].s
        /\ down[j].k \in {"chunk", "chunkT", "done", "error"}

\* The producers registered at close read nothing after it
StoppedReading ==
    \A id \in closeLog.outbound : Len(src[id].read) = closeLog.reads[id]

\* C9 as stated: after close(reason) every inbound sink registered at that
\* moment is errored with reason, and every outbound cancel handle registered
\* at that moment is fired with reason and its producer stops reading.
C9_AllErroredAllFired ==
    closeLog.ran =>
        /\ \A id \in closeLog.inbound :
              sinks[id].state = "errored" /\ sinks[id].err = closeLog.reason
        /\ \A id \in closeLog.outbound :
              closeLog.fired[id] = [aborted |-> TRUE, reason |-> closeLog.reason]
        /\ StoppedReading

\* C9 amended: after close(reason) every inbound sink registered at that
\* moment that its consumer had not cancelled is errored with reason (a
\* cancelled one stays closed); every outbound cancel handle registered at
\* that moment is fired, with reason unless a remote cancel had fired it
\* before, and its producer stops reading.
C9_OpenSinksErroredHandlesFired ==
    closeLog.ran =>
        /\ \A id \in closeLog.inbound :
              IF id \in closeLog.wasCanceled
              THEN sinks[id].state = "closed"
              ELSE sinks[id].state = "errored" /\ sinks[id].err = closeLog.reason
        /\ \A id \in closeLog.outbound :
              /\ closeLog.fired[id].aborted
              /\ id \notin closeLog.wasFired => closeLog.fired[id].reason = closeLog.reason
        /\ StoppedReading

C9_Witness ==
    /\ closeLog.ran
    /\ closeLog.inbound \ closeLog.wasCanceled # {}
    /\ closeLog.outbound \ closeLog.wasFired # {}
    /\ \E id \in closeLog.outbound : src[id].fin

----------------------------------------------------------------------------
(* Properties of SpecAlive *)

\* When the last frame reached the server's connection; when it was made, if none did
LastActivity == IF shist.arrivals = 0 THEN Epoch ELSE str.lastMessageTime

\* C11: a server connection that has been silent for more than pingTimeout
\* has been sent a ping since its last frame; when more than pongTimeout has
\* passed since a ping and no frame came after it, the server has asked for
\* the socket to be closed; and an open connection that has had a frame
\* always has a liveness timeout pending, the check or the wait for a pong.
C11_LivenessTimerKeptUp ==
    sopen =>
        /\ now - LastActivity > PingTimeout =>
                \E p \in shist.pings : p >= LastActivity
        /\ \A p \in shist.pings :
                (now > p + PongTimeout /\ str.lastMessageTime < p) => shist.closeReqs > 0
        /\ (shist.arrivals > 0 /\ shist.closeReqs = 0) => stimers # {}

----------------------------------------------------------------------------
(* Properties of SpecBackoff and SpecConnect *)

\* The entries of connLog that are failed attempts
Fails == {i \in DOMAIN connLog : connLog[i].ev = "fail"}

\* How many failed attempts in a row end with entry i
ConsecutiveFails(i) ==
    i - CHOOSE j \in 0 .. i :
            /\ j = 0 \/ connLog[j].ev # "fail"
            /\ \A k \in (j + 1) .. i : connLog[k].ev = "fail"

\* After entry i the connect loop neither sleeps nor calls the adapter again
LoopEndedAt(i) ==
    /\ connLog[i].thrown /\ ~connLog[i].slept
    /\ \A j \in DOMAIN connLog : j > i => connLog[j].ev = "abort"
    /\ loop = "ended"

\* C12: the failed attempts in a row never number more than numOfAttempts,
\* and the n-th failure in a row with n >= numOfAttempts re-throws the error
\* without a sleep and ends the loop (with numOfAttempts = 1, the first one).
C12_AtMostNumOfAttempts ==
    \A i \in Fails :
        /\ connLog[i].n = ConsecutiveFails(i)
        /\ ConsecutiveFails(i) <= options.numOfAttempts
        /\ ConsecutiveFails(i) >= options.numOfAttempts => LoopEndedAt(i)

C12_Witness ==
    /\ options.numOfAttempts >= 2
    /\ \E i \in Fails :
          /\ connLog[i].retry /\ connLog[i].thrown
          /\ ConsecutiveFails(i) = options.numOfAttempts
          /\ \A j \in 1 .. (i - 1) : connLog[j].slept

\* C13: a failed attempt for which the retry predicate answers false re-throws
\* its error at once: no sleep is started and no attempt follows.
C13_NoRetryRethrows ==
    \A i \in Fails : ~connLog[i].retry => LoopEndedAt(i)

C13_Witness ==
    \E i \in Fails :
        /\ ~connLog[i].retry
        /\ connLog[i].n < options.numOfAttempts
        /\ reported = handleError("Connection failed")

\* a = b and a <= b + 1/2 for fractions
Eq(a, b) == a[1] * b[2] = b[1] * a[2]

\* min(startingDelay * timeMultiple^(n-1), maxDelay)
SleepBound(n) ==
    Min(Times(options.startingDelay, Pow(options.timeMultiple, n - 1)), options.maxDelay)

\* The sleeps started, as <<n, delay>>
Sleeps == {<<connLog[i].n, connLog[i].delay>> : i \in {j \in Fails : connLog[j].slept}}

\* C14 as stated: the sleep after the n-th failure in a row is
\* min(startingDelay * timeMultiple^(n-1), maxDelay) without jitter, and lies
\* between 0 and that bound inclusive with jitter.
C14_SleepWithinBound ==
    \A s \in Sleeps :
        IF options.jitter
        THEN Leq(Whole(0), s[2]) /\ Leq(s[2], SleepBound(s[1]))
        ELSE Eq(s[2], SleepBound(s[1]))

\* C14 amended: without jitter the sleep is the bound; with jitter it is a
\* whole number k >= 0 with k = 0 or k < bound + 1/2.
C14_SleepWithinRoundedBound ==
    \A s \in Sleeps :
        IF options.jitter
        THEN /\ s[2][2] = 1 /\ s[2][1] >= 0
             /\ \/ s[2][1] = 0
                \/ 2 * s[2][1] * SleepBound(s[1])[2] <
                      2 * SleepBound(s[1])[1] + SleepBound(s[1])[2]
        ELSE Eq(s[2], SleepBound(s[1]))

C14_Witness ==
    /\ options.jitter
    /\ \E s \in Sleeps : s[1] = 2 /\ ~Leq(s[2], SleepBound(2))

\* C15: when an attached socket has closed and the signal is not aborted, the
\* interval of the connection is cleared, no transport is attached, the loop
\* is connecting again, and the attempts of the new connection are counted
\* from the start: a failure that follows the close is failure number 1.
C15_ReconnectsFromStart ==
    /\ (connLog # <<>> /\ connLog[Len(connLog)].ev = "close" /\ ~aborted) =>
            /\ interval = NoInterval
            /\ transport = NoTransport
            /\ loop = "connecting"
            /\ attempt = 0
    /\ \A i \in Fails : (i > 1 /\ connLog[i - 1].ev = "close") => connLog[i].n = 1

C15_Witness ==
    \E i \in Fails :
        /\ i > 3
        /\ connLog[i - 1].ev = "close" /\ connLog[i - 2].ev = "open"
        /\ connLog[i - 3].ev = "fail"
        /\ connLog[i].n = 1

\* The entries of connLog where the signal was aborted while a socket was attached
AbortsAttached ==
    {i \in DOMAIN connLog : i > 1 /\ connLog[i].ev = "abort" /\ connLog[i - 1].ev = "open"}

\* The calls in flight on socket s: sent on it, or queued before it opened
InFlightOn(s) ==
    {id \in DOMAIN issued : \/ issued[id].epoch = s /\ ~issued[id].queued
                            \/ issued[id].epoch = s - 1 /\ issued[id].queued}

\* What the claim says of an abort with a socket attached, except for the error sink
AbortClosesAndEnds(i) ==
    /\ \E c \in DOMAIN closeCalls : closeCalls[c] = <<connLog[i - 1].n, 1000>>
    /\ \A j \in DOMAIN connLog : j > i => connLog[j].ev = "close"
    /\ i < Len(connLog) =>
          /\ loop = "ended"
          /\ \A id \in InFlightOn(connLog[i - 1].n) :
                future[id] = [state |-> "rejected", value |-> connectionClosedException]

----------------------------------------------------------------------------
(* Properties of SpecSubscribe *)

\* The close of the transport reached the call of attachment c: its promise
\* was rejected, or its sequence errored, with connectionClosedException
CutByClose(c) ==
    \/ future[c] = [state |-> "rejected", value |-> connectionClosedException]
    \/ /\ c \in DOMAIN sinks
       /\ sinks[c].state = "errored" /\ sinks[c].err = connectionClosedException

\* The attachments whose call is pending or whose sequence is being read
Unfinished == {c \in DOMAIN sub : sub[c].phase \in {"pending", "reading"}}

Reissued == {c \in DOMAIN sub : sub[c].phase = "reissued"}

\* The frames the client wrote to a socket or holds in its queue
SentOrQueued ==
    UNION {{wire[s][i] : i \in DOMAIN wire[s]} : s \in DOMAIN wire}
        \cup {messageQueue[i] : i \in DOMAIN messageQueue}

\* C17: a subscription has at most one call that is pending or being read; a
\* call of it is replaced by a new one only when the close of the transport
\* reached it, the new call has the same method and params and is the only
\* one made for that close; and once the microtasks have run, every call the
\* close reached has been replaced.
C17_OneNewCallPerClose ==
    /\ Cardinality(Unfinished) <= 1
    /\ Cardinality(DOMAIN sub) <= 1 + Cardinality(Reissued)
    /\ \A c \in Reissued :
          /\ CutByClose(c)
          /\ sub[c].next \in DOMAIN sub /\ sub[c].next > c
          /\ sub[sub[c].next].method = sub[c].method
          /\ sub[sub[c].next].params = sub[c].params
          /\ \A d \in Reissued : sub[d].next = sub[c].next => d = c
          /\ \E f \in SentOrQueued :
                IsReqOf(f, sub[c].next) /\ f.x = sub[c].method /\ f.v = sub[c].params
    /\ ~MicrotaskPending => \A c \in DOMAIN sub : CutByClose(c) => c \in Reissued

C17_Witness ==
    /\ \E c \in Reissued : future[c].state = "rejected"
    /\ \E c \in Reissued : future[c].state = "resolved" /\ \E i \in DOMAIN observed :
                                                              observed[i].call = c
    /\ Unfinished # {}

\* C18: once the signal of subscribe is aborted, the observer is invoked for
\* no further item, a cancel frame has been written for every inbound
\* sequence there was, and when the microtasks have run no call of the
\* subscription is pending or being read.
C18_AbortEndsSubscription ==
    subSignal.aborted =>
        /\ Len(observed) = subSignal.seen
        /\ \A s \in subSignal.streams :
              \E f \in SentOrQueued : f.k = "cancel" /\ f.id = s
        /\ ~MicrotaskPending => Unfinished = {}

----------------------------------------------------------------------------
(* Properties of SpecServer *)

\* The responses written for request id, in order
Responses(id) == SelectSeq(sout, LAMBDA f : f.k = "res" /\ f.id = id)

\* The requests whose handler failed with an error that is not an RPCClientError
Crashed == {id \in DOMAIN handlers : handlers[id] \in {"TypeError", "RangeError"}}

\* C19: a request whose method was not registered through router() has
\* exactly one response, {id, error: "Unknown method: <name>"}, and no
\* function was invoked for it, whatever the method name is.
C19_UnknownMethodAnswered ==
    \A id \in DOMAIN shist.reqs :
        ~shist.reqs[id].registered =>
            /\ Responses(id) = << errorResponse(id, UnknownMethod(shist.reqs[id].method)) >>
            /\ id \notin DOMAIN handlers
            /\ \A i \in DOMAIN shist.invoked : shist.invoked[i] # id

\* C20: a request whose handler failed with an error that is not an
\* RPCClientError has exactly one response, {id, error: true}, whatever the
\* error is, and the error was passed to the error sink.
C20_ErrorMaskedAndReported ==
    \A id \in Crashed :
        /\ Responses(id) = << errorResponse(id, "true") >>
        /\ \E i \in DOMAIN shist.errors :
              shist.errors[i] = [id |-> id, error |-> handlers[id]]

----------------------------------------------------------------------------
(* Properties of SpecResponse *)

\* The calls settled by a response frame
Answered == {h \in DOMAIN settled : settled[h] # << >> /\ settled[h][1].by = "response"}

\* C21: a call answered by a response carrying result is resolved with that
\* value; one answered by a response carrying a string error is rejected with
\* exactly that string; one answered by a response carrying an error that is
\* no string is rejected with "request failed".
C21_ResponseSettlesCall ==
    \A h \in Answered :
        LET r == settled[h][1] IN
        /\ r.id = h
        /\ r.n = ResultKey => future[h] = [state |-> "resolved", value |-> r.x]
        /\ r.n = StringError => future[h] = [state |-> "rejected", value |-> r.x]
        /\ r.n = OtherError => future[h] = [state |-> "rejected", value |-> "request failed"]

C21_Witness ==
    /\ \E h \in Answered : settled[h][1].n = ResultKey /\ settled[h][1].x = "request failed"
    /\ \E h \in Answered : settled[h][1].n = StringError /\ settled[h][1].x = ""
    /\ \E h \in Answered : settled[h][1].n = OtherError /\ settled[h][1].x = "true"

----------------------------------------------------------------------------
(* Properties of SpecContext and SpecWare *)

\* The entries of ctxLog in which set(val) wrote numberContext
Sets == {i \in DOMAIN ctxLog : ctxLog[i].ran = <<"set">> /\ ~ctxLog[i].threw}

\* The entries of ctxLog in which numberContext().get() returned a value
Gets == {i \in DOMAIN ctxLog : ctxLog[i].ran = <<"get">> /\ ~ctxLog[i].threw}

\* The value the handlers dispatched for conn wrote last before entry i
LastWritten(conn, i) ==
    LET writes == {j \in Sets : j < i /\ ctxLog[j].conn = conn}
    IN  IF writes = {} THEN InitialValue
        ELSE ctxLog[CHOOSE j \in writes : \A k \in writes : k <= j].arg

\* C22: between two jobs no key is bound, every handler that reads the
\* context does so under the key of the connection it was dispatched for, and
\* it gets the value the handlers of that connection wrote last.
C22_ContextIsolated ==
    /\ currentClient = NoClient
    /\ \A i \in Gets :
          /\ ctxLog[i].key = ctxLog[i].conn
          /\ ctxLog[i].ret = LastWritten(ctxLog[i].conn, i)

\* The entries of ctxLog that are calls of a route made by routes()
WareCalls == {i \in DOMAIN ctxLog : ctxLog[i].method \in DOMAIN ware /\ ctxLog[i].key # NoClient}

\* Entry i is the k-th call of its route on its connection
Kth(i) ==
    Cardinality({j \in WareCalls : j <= i /\ ctxLog[j].conn = ctxLog[i].conn
                                         /\ ctxLog[j].method = ctxLog[i].method})

\* How many functions of a stack increment the counter
Incs(stk) == Cardinality({n \in DOMAIN stk : stk[n] = "inc"})

\* C23: a call of a route made by use(fn1).use(fn2)...routes() runs the
\* middleware functions of its stack, each once and in registration order,
\* and then the route; every run of the incrementing middleware adds one to
\* the counter of the calling connection, so with one such middleware the
\* k-th call on a connection returns k.
C23_MiddlewareOnceInOrder ==
    \A i \in WareCalls :
        LET e == ctxLog[i]
            stk == ware[e.method].stack
        IN  /\ e.ran = stk \o <<e.method>>
            /\ ~e.threw
            /\ e.ret = Incs(stk) * Kth(i)
            /\ Incs(stk) = 1 => e.ret = Kth(i)

C23_Witness ==
    \E i \in WareCalls : \E j \in WareCalls :
        /\ j < i /\ ctxLog[j].conn # ctxLog[i].conn /\ ctxLog[j].ret = 1
        /\ Len(ware[ctxLog[i].method].stack) = 2
        /\ Incs(ware[ctxLog[i].method].stack) = 1
        /\ ctxLog[i].ret = 2

----------------------------------------------------------------------------
(* Properties of SpecChannel *)

\* Subscriber i was in the set at time t: added before, not cancelled before
PresentAt(i, t) ==
    /\ pulls[i].addedAt # Never /\ pulls[i].addedAt < t
    /\ pulls[i].canceledAt = Never \/ t < pulls[i].canceledAt

\* The payloads pushed while subscriber i was in the set, in push order
PushedTo(i) ==
    LET mine == SelectSeq(pushed, LAMBDA p : PresentAt(i, p.at))
    IN  [k \in DOMAIN mine |-> mine[k].payload]

\* C24: what a subscriber has received is, once start has added it, the value
\* of onSubscribe(args) computed with the size the channel had when pull was
\* called, the subscriber itself not counted, followed by the payloads pushed
\* while it was in the set, in push order; a subscriber that is not in the
\* set at a push, not yet added or cancelled, does not get the payload, and
\* no push fails.
C24_SnapshotThenPushes ==
    /\ \A i \in DOMAIN pulls :
          /\ pulls[i].first =
                onSubscribe(pulls[i].arg,
                            Cardinality({j \in DOMAIN pulls : PresentAt(j, pulls[i].pullAt)}))
          /\ pulls[i].log =
                (IF pulls[i].addedAt # Never THEN <<pulls[i].first>> ELSE <<>>) \o PushedTo(i)
    /\ \A k \in DOMAIN pushed : ~pushed[k].threw
    /\ \A k \in DOMAIN subs :
          pulls[subs[k]].state = "readable" /\ pulls[subs[k]].phase = "started"

C24_Witness ==
    \E i \in DOMAIN pulls : \E j \in DOMAIN pulls :
        /\ i # j
        /\ pulls[j].first = pulls[j].arg + 1
        /\ Len(pulls[i].log) = 3 /\ pulls[i].canceledAt = Never
        /\ Len(pulls[j].log) = 2 /\ pulls[j].canceledAt # Never
        /\ Len(pushed) = 2 /\ pushed[2].at > pulls[j].canceledAt

\* C25: a chunk, done, error or cancel frame that names a stream id missing
\* from the table it is looked up in is fatal: the transport that parsed it
\* is closed and has parsed no frame after it.
C25_UnknownStreamIsFatal ==
    \A k \in DOMAIN slog :
        slog[k].x = "UnknownStream" =>
            IF slog[k].side = "consumer"
            THEN ctr.closed /\ rpos = slog[k].pos
            ELSE ptr.closed /\ upos = slog[k].pos

\* C26: when a frame that is no raw payload is parsed while a chunk{type}
\* announcement is pending, parse throws, the transport closes and no sink
\* gets an item.
C26_ControlFrameAfterAnnouncement ==
    [][ (/\ ctr.expectedChunk # NoChunk
         /\ rpos' = rpos + 1
         /\ down[rpos + 1].k # "raw")
        => (/\ slog' # slog
            /\ ctr'.closed
            /\ \A id \in DOMAIN sinks : sinks'[id].log = sinks[id].log) ]_vars

\* The consumer has cancelled inbound sequence id: its cancel frame is written
CancelSent(id) == \E i \in DOMAIN up : up[i].k = "cancel" /\ up[i].id = id

\* The frames of sequence id
StreamFrame(data, id) ==
    data.id = id /\ data.k \in {"chunk", "chunkT", "raw", "done", "error"}

\* C27: once the consumer has cancelled an inbound sequence, its sink gets no
\* further item; a chunk, announcement, payload, done or error frame of the
\* sequence is parsed without an error, an announcement leaves its payload
\* expected and the payload is taken with it, and the pings and messages that
\* follow are parsed as ever: a payload is expected exactly after an
\* announcement.
C27_CanceledInboundDiscards ==
    /\ [](~ctr.closed =>
            ((ctr.expectedChunk # NoChunk) <=> (rpos > 0 /\ down[rpos].k = "chunkT")))
    /\ [][ \A id \in DOMAIN sinks :
              (CancelSent(id) /\ ~ctr.closed) =>
                  /\ sinks'[id].log = sinks[id].log
                  /\ (rpos' = rpos + 1 /\ ~ctr'.closed) =>
                        LET data == down[rpos + 1] IN
                        /\ (StreamFrame(data, id) \/ data.k \in {"ping", "res"}) => slog' = slog
                        /\ (StreamFrame(data, id) /\ data.k = "chunkT") =>
                              ctr'.expectedChunk = [id |-> id, type |-> data.x]
                        /\ (StreamFrame(data, id) /\ data.k # "chunkT") =>
                              ctr'.expectedChunk = NoChunk
                        /\ data.k = "ping" => up' = Append(up, PongFrame) ]_vars

\* An announcement and its payload were discarded and the ping after them answered
C27_Witness ==
    /\ rpos = 4 /\ ~ctr.closed /\ slog = <<>>
    /\ down[2].k = "chunkT" /\ down[3].k = "raw" /\ down[4].k = "ping"
    /\ CancelSent(1) /\ sinks[1].log = <<>>
    /\ ctr.expectedChunk = NoChunk
    /\ up = << Frame("cancel", 1, "canceled", 0, 0, {}), PongFrame >>

\* The frames a step appends to down
Written == SubSeq(down', Len(down) + 1, Len(down'))

\* C28: parsing the cancel frame of a registered outbound sequence fires its
\* cancel handle with the reason of the frame and raises no error; while the
\* handle is fired and the transport open, no item is read from the local
\* sequence and no error frame is written for it, and the producer's next
\* step leaves the read loop and removes the id from the outbound table.
C28_CancelFrameStopsProducer ==
    [][ /\ (/\ upos' = upos + 1
            /\ up[upos + 1].k = "cancel"
            /\ up[upos + 1].id \in DOMAIN ptr.outbound)
           => /\ ptr'.outbound[up[upos + 1].id] = [aborted |-> TRUE, reason |-> up[upos + 1].x]
              /\ slog' = slog
        /\ \A id \in DOMAIN ptr.outbound :
              (ptr.outbound[id].aborted /\ ~ptr.closed) =>
                  /\ src'[id].read = src[id].read
                  /\ \A i \in DOMAIN Written :
                        ~(Written[i].k = "error" /\ Written[i].id = id)
                  /\ src'[id] # src[id] =>
                        (src'[id].fin /\ id \notin DOMAIN ptr'.outbound) ]_vars

\* The producer had read one item of sequence 1 when the cancel frame came,
\* and has left the read loop
C28_Witness ==
    /\ upos = 1 /\ up[1] = Frame("cancel", 1, "canceled", 0, 0, {})
    /\ ~ptr.closed /\ slog = <<>>
    /\ Len(src[1].read) = 1 /\ src[1].fin
    /\ 1 \notin DOMAIN ptr.outbound
    /\ down[Len(down)] = Frame("done", 1, "", 0, 0, {})

\* C29: an item that holds a lazy sequence is written as a chunk frame that
\* names fresh stream ids, each registered as an outbound stream.
C29_NestedSequenceSent ==
    \A id \in DOMAIN src : \A n \in DOMAIN src[id].read :
        src[id].read[n].type = "nested" =>
            \E i \in DOMAIN down :
                /\ down[i].k = "chunk" /\ down[i].id = id
                /\ down[i].v = src[id].read[n].val
                /\ down[i].s # {}
                /\ \A j \in down[i].s : j \in DOMAIN src /\ src[j].reg

ErrorFrames(id) == {i \in DOMAIN down : down[i].k = "error" /\ down[i].id = id}

\* C30: when a read of the local sequence rejected or an item could not be
\* stringified, and the cancel handle was not fired, the frames of the id hold
\* one error frame, with String(error), written last, and no done frame; the
\* id is out of the outbound table; the transport is open unless the socket
\* closed, no cancel handle of another sequence was fired, and each sequence
\* still in the table can take its next step.
C30_ProducerErrorIsLocal ==
    \A id \in DOMAIN src :
        src[id].thrown # NotThrown =>
            /\ Cardinality(ErrorFrames(id)) = 1
            /\ \A i \in ErrorFrames(id) :
                  /\ down[i].x = String(src[id].thrown)
                  /\ \A j \in DOMAIN down : (j > i) => down[j].id # id \/ down[j].k \in {"res", "ping"}
            /\ \A i \in DOMAIN down : ~(down[i].k = "done" /\ down[i].id = id)
            /\ src[id].fin /\ id \notin DOMAIN ptr.outbound
            /\ ptr.closed => closeLog.ran
            /\ ~closeLog.ran =>
                  \A j \in DOMAIN ptr.outbound :
                      /\ ~ptr.outbound[j].aborted
                      /\ Len(down) < MaxFrames =>
                            ENABLED PStep(j, Read("done", Item("", 0, 0), NotThrown))

\* Sequence 1 failed with Error('boom'); after that an item of sequence 2
\* and a message were written
C30_Witness ==
    /\ Len(down) = 4 /\ ~ptr.closed
    /\ down[2] = Frame("error", 1, "Error: boom", 0, 0, {})
    /\ down[3].k = "chunk" /\ down[3].id = 2
    /\ down[4].k = "res"
    /\ src[1].thrown = Thrown("Error", "boom")
    /\ 2 \in DOMAIN ptr.outbound

\* C31: send and ping called on a closed transport throw, write no frame,
\* start no timeout and leave the transport as it was; parse called on a
\* closed transport throws, writes no frame, gives no message to its caller
\* and leaves the sinks and the transport as they were.
C31_ClosedTransportRefuses ==
    [][ /\ ((\E k \in 0 .. MaxStreams : SendAfterClose(k)) \/ PingAfterClose)
            => /\ Len(slog') = Len(slog) + 1
               /\ down' = down /\ ptr' = ptr /\ timers' = timers
               /\ sinks' = sinks /\ src' = src
        /\ ParseAfterClose
            => /\ Len(slog') = Len(slog) + 1
               /\ up' = up /\ ctr' = ctr /\ sinks' = sinks
               /\ receiveMessage(ctr, sinks, down[rpos + 1], now).ret = NoMessage ]_vars

\* All three were called after close, the message sent holding a lazy
\* sequence and the frame parsed being an item of an open sequence
C31_Witness ==
    /\ Logged(Refused("producer", "send")) /\ Logged(Refused("producer", "ping"))
    /\ \E i \in DOMAIN slog :
          /\ slog[i].side = "consumer"
          /\ down[slog[i].pos].k \in {"chunk", "raw"}
          /\ down[slog[i].pos].id \in closeLog.inbound
          /\ sinks[down[slog[i].pos].id].log = <<>>

\* C32: a response whose id has no pending query is reported as "Unknown
\* response ID: <id>" and discarded: the step leaves the pending queries, the
\* futures, the stream tables and the sinks as they were and the transport
\* open.
C32_UnknownResponseDiscarded ==
    [][ reported'.msg = "Unknown response ID"
        => /\ queries' = queries /\ future' = future /\ settled' = settled
           /\ ~transport'.closed
           /\ transport'.inbound = transport.inbound
           /\ transport'.outbound = transport.outbound
           /\ sinks' = sinks ]_vars

\* The ids of the request frames on socket s
IdsOn(s) == {wire[s][i].id : i \in {j \in DOMAIN wire[s] : IsReq(wire[s][j])}}

\* C33: the ids a client has allocated are 1, 2, .. in the order of the
\* calls, each given to one call and written in one request frame; on a
\* socket the ids go up, and the ids on a later socket are above those on
\* every earlier one, queued calls included.  So the future of a call is
\* never settled by a response that arrives on another socket than the one
\* its request was written to.
C33_IdsIncreaseNeverReused ==
    /\ [](/\ nextRequestId >= 1
          /\ DOMAIN issued = 1 .. (nextRequestId - 1)
          /\ DOMAIN queries \subseteq DOMAIN issued
          /\ \A id \in DOMAIN issued :
                /\ Cardinality(Writes(id)) + Cardinality({i \in DOMAIN messageQueue :
                                                            messageQueue[i].id = id}) = 1
                /\ \A w \in Writes(id) : w[1] >= issued[id].epoch
          /\ \A s \in DOMAIN wire :
                /\ \A i \in DOMAIN Requests(s) : \A j \in DOMAIN Requests(s) :
                      i < j => Requests(s)[i].id < Requests(s)[j].id
                /\ \A t \in DOMAIN wire : s < t =>
                      \A a \in IdsOn(s) : \A b \in IdsOn(t) : a < b)
    /\ [][ \A h \in DOMAIN future :
              (h \in DOMAIN future' /\ future'[h] # future[h] /\ sock' = sock /\ sockOpen')
                  => h \in IdsOn(sock) ]_vars

\* Call 1 went out on the first socket and was rejected when it closed; call
\* 2, queued meanwhile, was answered on the second socket, where a result
\* for id 1 arrived too
C33_Witness ==
    /\ sock = 2 /\ IdsOn(1) = {1} /\ IdsOn(2) = {2}
    /\ issued[2].queued
    /\ future[1] = [state |-> "rejected", value |-> connectionClosedException]
    /\ future[2].state = "resolved"
    /\ Len(settled[1]) = 2 /\ settled[1][2].by = "response"

\* C34: the pending-query table holds entries of pending calls only, and once
\* the close callback of a socket has run it holds no entry of a request
\* written to that socket.
C34_CloseDrainsQueries ==
    /\ \A id \in DOMAIN queries : future[queries[id]].state = "pending"
    /\ \A s \in DOMAIN wire :
          (s < sock \/ ~sockOpen) => IdsOn(s) \cap DOMAIN queries = {}

\* C35: between two peers that follow the protocol no frame parsed names a
\* stream id that is missing from the table it is looked up in.
C35_NoUnknownIdBetweenPeers ==
    \A k \in DOMAIN slog : slog[k].x # "UnknownStream"

\* C36: after close(reason) the producing transport hands no further frame to
\* the send function of its socket.
C36_NoFrameAfterClose ==
    closeLog.ran => Len(down) = cut

\* C37: a parse that throws leaves no payload expected and the stream tables
\* as they were.
C37_FaultLeavesParserClean ==
    [][ (rpos' = rpos + 1 /\ slog' # slog)
        => /\ ctr'.expectedChunk = NoChunk
           /\ ctr'.inbound = ctr.inbound
           /\ ctr'.outbound = ctr.outbound ]_vars

\* C38: the cancel callback of an inbound sequence never throws: whenever the
\* consumer cancels a sequence it can still read from, the registry holds the
\* entry of its id.
C38_CancelNeverFails ==
    \A k \in DOMAIN slog : slog[k] # CancelFailed(slog[k].pos)

\* C39: when the timeout of a ping runs, its result callback is invoked only
\* if the socket the ping was sent on is still the client's open socket; a
\* close with code 1001 is asked for by such an invocation only, and of that
\* socket; so a timeout started on an earlier connection closes nothing.
C39_ProbeBelongsToOneTransport ==
    /\ [][ probes' # probes =>
             LET p == probes'[Len(probes')] IN
             /\ p.open => (p.owner = sock /\ sockOpen /\ Attached)
             /\ IF p.closed1001
                THEN p.open /\ closeCalls' = Append(closeCalls, <<sock, 1001>>)
                ELSE closeCalls' = closeCalls ]_vars
    /\ [][ probes' = probes => closeCalls' = closeCalls ]_vars
    /\ [][ (interval' # interval /\ interval' # NoInterval) => (sockOpen' /\ Attached') ]_vars

\* The timeout of a ping sent on socket 1 ran while socket 2 was open, and a
\* ping on socket 2 went unanswered and closed it
C39_Witness ==
    /\ sock = 2
    /\ \E i \in DOMAIN probes : \E j \in DOMAIN probes :
          /\ i < j
          /\ probes[i].owner = 1 /\ ~probes[i].open /\ ~probes[i].seen
          /\ probes[j].owner = 2 /\ probes[j].closed1001
    /\ closeCalls = << <<2, 1001>> >>

\* C40: every future returned by a call is settled in the end.
C40_EveryCallSettles ==
    \A h \in 1 .. MaxCalls :
        (h \in DOMAIN future)
            ~> (h \in DOMAIN future /\ future[h].state # "pending")

====
